---- MODULE Spec2Model ----
(***************************************************************************)
(* A model of framebuffer.js (release 2024-09-12, src/framebuffer.js lines *)
(* 1-2589): resources (canvas + ImageData), the dirty/defer synchronizer,  *)
(* the drawing primitives, the transforms and the configuration registry.  *)
(*                                                                         *)
(* JavaScript values are modelled as follows.                              *)
(*  - An ImageData is [null, w, h, data]; data is the flat RGBA byte       *)
(*    array, data[k + 1] being the byte at JavaScript index k.             *)
(*  - A canvas is [null, w, h, data, alpha]; data is its bitmap, alpha the *)
(*    'alpha' context attribute it was created with.                       *)
(*  - A read outside a typed array yields undefined: Undef.                *)
(*  - Configuration values are tokens: "0" "1" (numbers), "false" "true"   *)
(*    (booleans), "s:1" (the string '1'), "<default>".                     *)
(*  - A return value is [op, kind, n, s, px].                              *)
(***************************************************************************)
EXTENDS Integers, Sequences, FiniteSets, TLC

\* ------------------------------------------------------------------ bounds
MaxDim == 2
MaxRes == 2
MaxSteps == 3

\* The largest number of pixels of an image whose every bitmap is enumerated.
MaxPixels == 4

\* The largest number of errors in the log at the start.
MaxLog == 2

\* --------------------------------------------------------- program constants
FB_MAX_WIDTH == 32767
FB_MAX_HEIGHT == 32767
FB_CHANNEL_R == 0
FB_CHANNEL_G == 1
FB_CHANNEL_B == 2
FB_CHANNEL_A == 3
FB_DEFER_WRITE_THROUGH == 0
FB_DEFER_WRITE_BACK == 1

\* The value of a read outside a typed array (undefined).
Undef == -1

VARIABLES res, cfg, ctx, errors, ret, steps, hooks, window, loads

vars == <<res, cfg, ctx, errors, ret, steps, hooks, window, loads>>

\* ------------------------------------------------------------ JS helpers
Min(a, b) == IF a < b THEN a ELSE b

Max(a, b) == IF a > b THEN a ELSE b

Abs(a) == IF a < 0 THEN -a ELSE a

\* n | 0 for the integer n = n[1] * 2^31 + n[2], where n[2] is in 0..2^31-1
\* unless n[1] = 0: the signed 32-bit integer congruent to n modulo 2^32.
ToInt32(n) == IF n[1] % 2 = 0 THEN n[2] ELSE (n[2] - 2147483647) - 1

\* clamp(v, l, h)
clamp(v, l, h) == IF l > v THEN l ELSE IF h < v THEN h ELSE v

\* Storing a number in a Uint8ClampedArray: undefined/NaN becomes 0, the rest
\* is clamped to 0..255.
ToUint8Clamped(v) == IF v = Undef THEN 0 ELSE clamp(v, 0, 255)

\* Truthiness of a configuration token.
Truthy(v) == v \in {"1", "true", "s:1", "<default>", "2"}

Ret(op, kind, n, s, px) == [op |-> op, kind |-> kind, n |-> n, s |-> s, px |-> px]

NoPx == <<0, 0, 0>>

RetUndefined(op) == Ret(op, "undefined", 0, "", NoPx)

RetBool(op, b) == Ret(op, "bool", IF b THEN 1 ELSE 0, "", NoPx)

RetNull(op) == Ret(op, "null", 0, "", NoPx)

RetNum(op, n) == Ret(op, "num", n, "", NoPx)

RetRes(op, i) == Ret(op, "res", i, "", NoPx)

RetErr(op, id) == Ret(op, "err", 0, id, NoPx)

\* An uncaught TypeError: a property of null was read.
RetThrow(op) == Ret(op, "throw", 0, "TypeError", NoPx)

\* ------------------------------------------------------------- ImageData
NullImage == [null |-> TRUE, w |-> 0, h |-> 0, data |-> <<>>]

\* new ImageData(width, height) followed by data.fill(255)
NewImage(width, height) ==
  [null |-> FALSE, w |-> width, h |-> height,
   data |-> [k \in 1..(width * height * 4) |-> 255]]

\* image.data[pos]
ReadByte(image, pos) ==
  IF pos >= 0 /\ pos < Len(image.data) THEN image.data[pos + 1] ELSE Undef

\* image.data[pos] = v  (a write outside the array is ignored)
WriteByte(image, pos, v) ==
  IF pos >= 0 /\ pos < Len(image.data)
  THEN [image EXCEPT !.data[pos + 1] = ToUint8Clamped(v)]
  ELSE image

\* The RGBA bytes of pixel (x, y) of a bitmap of width w, 0 <= x < w.
PixelAt(data, w, x, y) ==
  << data[(w * y + x) * 4 + 1], data[(w * y + x) * 4 + 2],
     data[(w * y + x) * 4 + 3], data[(w * y + x) * 4 + 4] >>

\* ----------------------------------------------------------------- canvas
NullCanvas == [null |-> TRUE, w |-> 0, h |-> 0, data |-> <<>>, alpha |-> FALSE]

\* The bitmap of a canvas that was just created or resized: transparent black,
\* which an opaque context (alpha: false) shows as opaque black.
ClearBitmap(w, h, alpha) ==
  [k \in 1..(w * h * 4) |-> IF k % 4 = 0 /\ ~alpha THEN 255 ELSE 0]

\* document.createElement('canvas'), width/height set, getContext('2d', attrs)
NewCanvas(w, h, alpha) ==
  [null |-> FALSE, w |-> w, h |-> h, data |-> ClearBitmap(w, h, alpha), alpha |-> alpha]

\* canvas.width = w; canvas.height = h  (resets the bitmap)
ResizeCanvas(canvas, w, h) ==
  [canvas EXCEPT !.w = w, !.h = h, !.data = ClearBitmap(w, h, canvas.alpha)]

\* The dirty rectangle of putImageData after the HTML standard's clipping:
\* [x0, x1) x [y0, y1) in the image's coordinates.
DirtyRect(image, dirtyX, dirtyY, dirtyW, dirtyH) ==
  LET ax == IF dirtyW < 0 THEN dirtyX + dirtyW ELSE dirtyX
      aw == Abs(dirtyW)
      ay == IF dirtyH < 0 THEN dirtyY + dirtyH ELSE dirtyY
      ah == Abs(dirtyH)
      bx == Max(ax, 0)
      bw == IF ax < 0 THEN aw + ax ELSE aw
      by == Max(ay, 0)
      bh == IF ay < 0 THEN ah + ay ELSE ah
  IN  [x0 |-> bx, x1 |-> Min(bx + bw, image.w),
       y0 |-> by, y1 |-> Min(by + bh, image.h)]

\* context.putImageData(image, dx, dy, dirtyX, dirtyY, dirtyW, dirtyH)
PutImageDataRect(canvas, image, dx, dy, dirtyX, dirtyY, dirtyW, dirtyH) ==
  LET d == DirtyRect(image, dirtyX, dirtyY, dirtyW, dirtyH)
      src(k) ==
        LET p  == (k - 1) \div 4
            ch == (k - 1) % 4
            cx == p % canvas.w
            cy == p \div canvas.w
            ix == cx - dx
            iy == cy - dy
        IN  IF ix >= d.x0 /\ ix < d.x1 /\ iy >= d.y0 /\ iy < d.y1
            THEN IF ch = FB_CHANNEL_A /\ ~canvas.alpha
                 THEN 255
                 ELSE image.data[(image.w * iy + ix) * 4 + ch + 1]
            ELSE canvas.data[k]
  IN  [canvas EXCEPT !.data = [k \in 1..Len(canvas.data) |-> src(k)]]

\* context.putImageData(image, dx, dy)
PutImageData(canvas, image, dx, dy) ==
  PutImageDataRect(canvas, image, dx, dy, 0, 0, image.w, image.h)

\* context.getImageData(0, 0, sw, sh) for sw, sh > 0: pixels outside the
\* canvas are transparent black.
GetImageData(canvas, sw, sh) ==
  LET src(k) ==
        LET p  == (k - 1) \div 4
            ch == (k - 1) % 4
            x  == p % sw
            y  == p \div sw
        IN  IF x < canvas.w /\ y < canvas.h
            THEN canvas.data[(canvas.w * y + x) * 4 + ch + 1]
            ELSE 0
  IN  [null |-> FALSE, w |-> sw, h |-> sh, data |-> [k \in 1..(sw * sh * 4) |-> src(k)]]

\* -------------------------------------------------------- configuration
fb_config_map_keys == {"alpha", "defer", "error_log", "resource_list", "desync"}

fb_config_allowed(key) ==
  IF key = "defer" THEN {"0", "1"} ELSE {"0", "1", "false", "true"}

fb_config_map_default(key) ==
  CASE key = "alpha" -> "false"
    [] key = "defer" -> "1"
    [] OTHER -> "0"

\* A _set that drops the value.
ConfigSet_dropped(c, key, value) == c

\* fb_config_map[key]._set(value, parent)
ConfigSet(c, key, value) == [c EXCEPT ![key] = value]

CtxSet(a, key, value) ==
  CASE key = "alpha" -> [a EXCEPT !.alpha = value]
    [] key = "desync" -> [a EXCEPT !.desynchronized = value]
    [] OTHER -> a

\* A fb_config without the check of the allowed values.
fb_config_unchecked(c, a, key, value) ==
  IF key \notin fb_config_map_keys
  THEN [cfg |-> c, ctx |-> a, err |-> "FB_ERR_BAD_CFG_KEY"]
  ELSE IF value = "<default>"
  THEN [cfg |-> ConfigSet(c, key, fb_config_map_default(key)),
        ctx |-> CtxSet(a, key, fb_config_map_default(key)), err |-> "null"]
  ELSE [cfg |-> ConfigSet(c, key, value), ctx |-> CtxSet(a, key, value), err |-> "null"]

\* fb_config(key, value) for a value other than undefined: the map and the
\* context attributes afterwards, and the id of the error returned ("null"
\* when the call returns true).
fb_config(c, a, key, value) ==
  IF key \notin fb_config_map_keys
  THEN [cfg |-> c, ctx |-> a, err |-> "FB_ERR_BAD_CFG_KEY"]
  ELSE IF value = "<default>"
  THEN [cfg |-> ConfigSet(c, key, fb_config_map_default(key)),
        ctx |-> CtxSet(a, key, fb_config_map_default(key)), err |-> "null"]
  ELSE IF value \notin fb_config_allowed(key)
  THEN [cfg |-> c, ctx |-> a, err |-> "FB_ERR_BAD_CFG_VALUE"]
  ELSE [cfg |-> ConfigSet(c, key, value), ctx |-> CtxSet(a, key, value), err |-> "null"]

\* fb_config(key): the value returned for a known key.
fb_config_get(c, key) == c[key]

\* key.toLowerCase() on the keys used as inputs.
ToLowerCase(key) == IF key = "ALPHA" THEN "alpha" ELSE key

\* fb_config_default(key) for a key known once in lower case.
fb_config_default(key) == fb_config_map_default(ToLowerCase(key))

\* ----------------------------------------------------------------- errors
\* A fb_error that logs whatever 'error_log' says.
LogError_always(log, c, id) == Append(log, id)

\* fb_error(definition, ...): the log after the call.
LogError(log, c, id) == IF Truthy(c["error_log"]) THEN Append(log, id) ELSE log

\* -------------------------------------------------------------- resources
\* The boundary checks with the height looked at before the width.
CreateError_height_first(width, height) ==
  IF 0 >= height THEN "FB_ERR_BAD_HEIGHT"
  ELSE IF 0 >= width THEN "FB_ERR_BAD_WIDTH"
  ELSE IF height > FB_MAX_HEIGHT THEN "FB_ERR_LARGE_HEIGHT"
  ELSE IF width > FB_MAX_WIDTH THEN "FB_ERR_LARGE_WIDTH"
  ELSE "null"

\* fb_create(width, height) without its error bookkeeping: the error id of the
\* failed boundary check, or "null".
CreateError(width, height) ==
  IF 0 >= width THEN "FB_ERR_BAD_WIDTH"
  ELSE IF 0 >= height THEN "FB_ERR_BAD_HEIGHT"
  ELSE IF width > FB_MAX_WIDTH THEN "FB_ERR_LARGE_WIDTH"
  ELSE IF height > FB_MAX_HEIGHT THEN "FB_ERR_LARGE_HEIGHT"
  ELSE "null"

\* fb_create giving every resource the default write policy.
fb_create_default_defer(width, height, c, a) ==
  LET base == [canvas |-> NullCanvas, width |-> width, height |-> height,
               image |-> NullImage, loaded |-> TRUE, locked |-> FALSE,
               dirty |-> 0, defer |-> fb_config_map_default("defer"), error |-> "null",
               threw |-> FALSE]
  IN  IF CreateError(width, height) # "null"
      THEN [base EXCEPT !.error = CreateError(width, height)]
      ELSE [base EXCEPT
              !.image = NewImage(width, height),
              !.canvas = PutImageData(NewCanvas(width, height, Truthy(a.alpha)),
                                      NewImage(width, height), 0, 0)]

\* fb_create(width, height) for width and height that are signed 32-bit integers,
\* which width |= 0 and height |= 0 leave as they are: the resource it returns.
fb_create(width, height, c, a) ==
  LET base == [canvas |-> NullCanvas, width |-> width, height |-> height,
               image |-> NullImage, loaded |-> TRUE, locked |-> FALSE,
               dirty |-> 0, defer |-> c["defer"], error |-> "null",
               threw |-> FALSE]
  IN  IF CreateError(width, height) # "null"
      THEN [base EXCEPT !.error = CreateError(width, height)]
      ELSE [base EXCEPT
              !.image = NewImage(width, height),
              !.canvas = PutImageData(NewCanvas(width, height, Truthy(a.alpha)),
                                      NewImage(width, height), 0, 0)]

\* The canvas, the context and the image are non-null.
Created(r) == ~r.canvas.null /\ ~r.image.null

\* A TypeError (a property of the null canvas, context or image was read)
\* ends the running call: r.threw marks it, and every later step of the call
\* leaves r alone. The flag is cleared when the call's result is stored.
Throw(r) == [r EXCEPT !.threw = TRUE]

\* fb_update(resource)
fb_update(r) == [r EXCEPT !.dirty = 0]

\* One iteration of fb_sync's loop: putImageData, then fb_update.
SyncOne(r) ==
  IF r.threw THEN r
  ELSE IF ~Created(r) THEN Throw(r)
  ELSE fb_update([r EXCEPT !.canvas = PutImageData(r.canvas, r.image, 0, 0)])

\* fb_defer(resource)
fb_defer(r) ==
  IF r.threw THEN r
  ELSE IF r.defer = "0" THEN SyncOne(r) ELSE r

\* fb_set_pixel(resource, x, y, r, g, b) for integers x, y.
fb_set_pixel(r, x, y, c) ==
  IF r.threw \/ r.locked THEN r
  ELSE IF ~Created(r) THEN Throw(r)
  ELSE LET pos == r.width * y * 4 + x * 4
       IN  [r EXCEPT
              !.image = WriteByte(WriteByte(WriteByte(r.image,
                          pos + FB_CHANNEL_R, c[1]),
                          pos + FB_CHANNEL_G, c[2]),
                          pos + FB_CHANNEL_B, c[3]),
              !.dirty = 1]

\* fb_get_pixel(resource, x, y) for a created resource, integers x, y.
fb_get_pixel(r, x, y) ==
  LET pos == r.width * y * 4 + x * 4
  IN  << ReadByte(r.image, pos + FB_CHANNEL_R),
         ReadByte(r.image, pos + FB_CHANNEL_G),
         ReadByte(r.image, pos + FB_CHANNEL_B) >>

\* The display surface shows the pixel buffer: same dimensions, same RGB.
DisplayEq(r) ==
  /\ r.canvas.w = r.image.w
  /\ r.canvas.h = r.image.h
  /\ \A k \in 1..Len(r.image.data) : k % 4 # 0 => r.canvas.data[k] = r.image.data[k]

\* fb_valid(resource) for an argument that is null (0) or the index of a
\* resource: every FBResource has every field, a failed one too.
fb_valid(arg) == arg # 0

\* fb_sync(var_args): args are resource indices or null. The loop stops with a
\* TypeError at the first argument whose context is null. Returns
\* [res, count, threw].
RECURSIVE SyncArgs(_, _, _, _)
SyncArgs(rs, args, k, count) ==
  IF k > Len(args) THEN [res |-> rs, count |-> count, threw |-> FALSE]
  ELSE IF ~fb_valid(args[k]) THEN SyncArgs(rs, args, k + 1, count)
  ELSE IF ~Created(rs[args[k]]) THEN [res |-> rs, count |-> count + 1, threw |-> TRUE]
  ELSE SyncArgs([rs EXCEPT ![args[k]] = SyncOne(rs[args[k]])], args, k + 1, count + 1)

\* fb_clear(resource, r, g, b)
fb_clear(r, c) ==
  IF ~Created(r) THEN Throw(r)
  ELSE
  fb_defer([r EXCEPT !.image.data =
              [k \in 1..Len(r.image.data) |->
                 IF k % 4 = 0 THEN r.image.data[k] ELSE c[k % 4]]])

\* x | 0 for x given in half units.
TruncHalf(xh) == IF xh >= 0 THEN xh \div 2 ELSE -((-xh) \div 2)

Sign(d) == IF d > 0 THEN 1 ELSE IF d < 0 THEN -1 ELSE 0

\* The loop of fb_line for p = 1 and a horizontal, vertical or empty segment,
\* where l = |dx| + |dy| and ax, ay are -1, 0 or 1 exactly: iteration k works
\* on (x1 + k * ax / 2, y1 + k * ay / 2), kept here in half units.
RECURSIVE LineLoop(_, _, _, _, _, _, _, _)
LineLoop(r, x1, y1, sx, sy, k, n, c) ==
  IF k >= n \/ r.threw THEN r
  ELSE LET xh == 2 * x1 + k * sx
           yh == 2 * y1 + k * sy
           r2 == IF 2 * r.width > xh /\ 2 * r.height > yh
                 THEN fb_set_pixel(r, TruncHalf(xh), TruncHalf(yh), c)
                 ELSE r
       IN  LineLoop(r2, x1, y1, sx, sy, k + 1, n, c)

\* fb_line(resource, x1, y1, x2, y2, r, g, b) for an axis-aligned segment
\* (x1 = x2 or y1 = y2).
fb_line(r, x1, y1, x2, y2, c) ==
  IF r.threw THEN r
  ELSE
  fb_defer(LineLoop(r, x1, y1, Sign(x2 - x1), Sign(y2 - y1), 0,
                    2 * (Abs(x2 - x1) + Abs(y2 - y1)), c))

\* The nested loop of fb_rect with fill = true, row by row.
RECURSIVE RectLoop(_, _, _, _, _, _, _, _)
RectLoop(r, x, y, w, h, x2, y2, c) ==
  IF y2 >= h + y \/ r.threw THEN r
  ELSE IF x2 >= w + x THEN RectLoop(r, x, y, w, h, x, y2 + 1, c)
  ELSE RectLoop(IF r.width > x2 /\ r.height > y2 THEN fb_set_pixel(r, x2, y2, c) ELSE r,
                x, y, w, h, x2 + 1, y2, c)

\* fb_rect(resource, x, y, w, h, r, g, b, fill)
fb_rect(r, x, y, w, h, c, fill) ==
  IF fill THEN fb_defer(RectLoop(r, x, y, w, h, x, y, c))
  ELSE LET x2 == w + x
           y2 == h + y
           top    == fb_line(r, x, y, x2 - 1, y, c)
           left   == fb_line(top, x, y, x, y2, c)
           bottom == fb_line(left, x, y2 - 1, x2 - 1, y2 - 1, c)
           right  == fb_line(bottom, x2 - 1, y, x2 - 1, y2, c)
       IN  fb_defer(right)

\* fb_circle(resource, ...) with fill = false and angles > 0. The coordinates
\* the trigonometry yields are not computed: pts is the sequence of
\* (x | 0, y | 0) that the loop hands to fb_set_pixel, and may be any sequence
\* of one point or more.
RECURSIVE CircleLoop(_, _, _, _)
CircleLoop(r, pts, k, c) ==
  IF k > Len(pts) \/ r.threw THEN r
  ELSE CircleLoop(fb_set_pixel(r, pts[k][1], pts[k][2], c), pts, k + 1, c)

fb_circle(r, pts, c) == fb_defer(CircleLoop(r, pts, 1, c))

\* The while loop of fb_fill with callback fb_set_pixel; the stack is a
\* sequence whose last element is the top. fuel counts the iterations left:
\* the result is [r, done], done = FALSE when the fuel ran out.
RECURSIVE FillLoop(_, _, _, _, _)
FillLoop(r, stack, bg, c, fuel) ==
  IF Len(stack) = 0 THEN [r |-> r, done |-> TRUE]
  ELSE IF fuel = 0 THEN [r |-> r, done |-> FALSE]
  ELSE LET x     == stack[Len(stack)][1]
           y     == stack[Len(stack)][2]
           rest  == SubSeq(stack, 1, Len(stack) - 1)
           color == fb_get_pixel(r, x, y)
       IN  IF 0 > x \/ x > r.width \/ 0 > y \/ y > r.height
           THEN FillLoop(r, rest, bg, c, fuel - 1)
           ELSE IF color[1] # bg[1] \/ color[2] # bg[2] \/ color[3] # bg[3]
           THEN FillLoop(r, rest, bg, c, fuel - 1)
           ELSE FillLoop(fb_set_pixel(r, x, y, c),
                         rest \o << <<x + 1, y>>, <<x - 1, y>>, <<x, y + 1>>, <<x, y - 1>> >>,
                         bg, c, fuel - 1)

\* A loop of fb_fill that returns makes at most 1 + 4 * width * height
\* iterations when every fb_set_pixel changes the pixel it was called for
\* (each pixel is then filled once) and at most 5 otherwise (the seed is
\* filled without effect and none of its neighbours matches): a loop that
\* makes more never ends.
FillFuel(r) == 4 * r.width * r.height + 6

\* fb_fill without its test of the seed's colour.
fb_fill_unguarded(r, x, y, c) ==
  LET bg == fb_get_pixel(r, x, y)
  IN  IF ~Created(r) THEN [r |-> Throw(r), ret |-> FALSE, done |-> TRUE]
      ELSE LET run == FillLoop(r, << <<x, y>> >>, bg, c, FillFuel(r))
           IN  [r |-> fb_defer(run.r), ret |-> TRUE, done |-> run.done]

\* fb_fill(resource, x, y, r, g, b) with the default callback:
\* [r, ret, done], ret the returned boolean.
fb_fill(r, x, y, c) ==
  LET bg == fb_get_pixel(r, x, y)
  IN  IF ~Created(r) THEN [r |-> Throw(r), ret |-> FALSE, done |-> TRUE]
      ELSE IF bg[1] = c[1] /\ bg[2] = c[2] /\ bg[3] = c[3]
      THEN [r |-> r, ret |-> FALSE, done |-> TRUE]
      ELSE LET run == FillLoop(r, << <<x, y>> >>, bg, c, FillFuel(r))
           IN  [r |-> fb_defer(run.r), ret |-> TRUE, done |-> run.done]

\* ------------------------------------------------------------ transforms
\* A transform's result: the source as the call leaves it, the new resource,
\* and the error id fb_create raised for the new resource ("null" if none).
Result(src, new, c) ==
  [src |-> src, new |-> new, err |-> CreateError(new.width, new.height)]

\* The loop of fb_copy: byte i + channel of the copy from byte i + cri/cgi/cbi
\* of the source, for every i below the source's length (a write past the end
\* of the copy is ignored).
CopyBytes(r, copy, cri, cgi, cbi) ==
  [copy EXCEPT !.image.data =
     [k \in 1..Len(copy.image.data) |->
        LET i  == ((k - 1) \div 4) * 4
            ch == (k - 1) % 4
        IN  IF ch = FB_CHANNEL_A \/ i >= Len(r.image.data) THEN copy.image.data[k]
            ELSE ToUint8Clamped(ReadByte(r.image,
                   i + (CASE ch = FB_CHANNEL_R -> cri [] ch = FB_CHANNEL_G -> cgi [] OTHER -> cbi)))]]

\* fb_copy(resource, cri, cgi, cbi): the copy.
fb_copy(r, cri, cgi, cbi, c, a) ==
  LET copy == fb_create(r.width, r.height, c, a)
  IN  IF ~Created(r) \/ ~Created(copy) THEN Throw(copy)
      ELSE LET filled == CopyBytes(r, copy, cri, cgi, cbi)
           IN  fb_defer([filled EXCEPT !.canvas = PutImageData(filled.canvas, filled.image, 0, 0)])

\* Rounding of num / den (den > 0) to the nearest integer, ties to even, as a
\* Uint8ClampedArray stores a number.
RoundHalfEven(num, den) ==
  LET q == num \div den
      m == num % den
  IN  IF 2 * m < den THEN q
      ELSE IF 2 * m > den THEN q + 1
      ELSE IF q % 2 = 0 THEN q ELSE q + 1

IsUndef(px) == px[1] = Undef \/ px[2] = Undef \/ px[3] = Undef

\* (c[0] * 0.21) + (c[1] * 0.72) + (c[2] * 0.07), as the byte stored.
Luma(px) ==
  IF IsUndef(px) THEN 0 ELSE clamp(RoundHalfEven(21 * px[1] + 72 * px[2] + 7 * px[3], 100), 0, 255)

\* (((c[0] + c[1] + c[2]) / 3) | 0) & 0xFF, then the threshold at 127.
OneBit(px) ==
  IF IsUndef(px) THEN 0 ELSE IF ((px[1] + px[2] + px[3]) \div 3) % 256 > 127 THEN 255 ELSE 0

\* The pixel a pixel-by-pixel transform writes for source pixel (x, y).
Target(kind, width, height, x, y) ==
  CASE kind = "flip_x" -> <<Abs(width - x) - 1, y>>
    [] kind = "flip_y" -> <<x, Abs(height - y) - 1>>
    [] kind = "rotate_right" -> <<Abs(height - y) - 1, x>>
    [] kind = "rotate_left" -> <<y, Abs(width - x) - 1>>
    [] OTHER -> <<x, y>>

\* The colour it writes there.
Colour(kind, px) ==
  CASE kind = "grayscale" -> <<Luma(px), Luma(px), Luma(px)>>
    [] kind = "1bit" -> <<OneBit(px), OneBit(px), OneBit(px)>>
    [] OTHER -> px

\* for (y = 0; y < height; y++) for (x = 0; x < width; x++) { c = fb_get_pixel(
\* resource, x, y); fb_set_pixel(resource_new, ...) }, iteration k of n.
RECURSIVE PixelLoop(_, _, _, _, _)
PixelLoop(kind, r, new, k, n) ==
  IF k >= n \/ new.threw THEN new
  ELSE IF ~Created(r) THEN Throw(new)
  ELSE LET x == k % r.width
           y == k \div r.width
           t == Target(kind, r.width, r.height, x, y)
       IN  PixelLoop(kind, r,
                     fb_set_pixel(new, t[1], t[2], Colour(kind, fb_get_pixel(r, x, y))),
                     k + 1, n)

Iterations(r) == IF r.width > 0 /\ r.height > 0 THEN r.width * r.height ELSE 0

\* fb_flip_x(resource)
fb_flip_x(r, c, a) ==
  LET new == PixelLoop("flip_x", r, fb_create(r.width, r.height, c, a), 0, Iterations(r))
  IN  Result(r, fb_defer(new), c)

\* fb_flip_y(resource): the last fb_defer is handed the source.
fb_flip_y(r, c, a) ==
  LET new == PixelLoop("flip_y", r, fb_create(r.width, r.height, c, a), 0, Iterations(r))
  IN  IF new.threw THEN Result(r, new, c) ELSE Result(fb_defer(r), new, c)

\* fb_rotate_right(resource): the last fb_defer is handed the source.
fb_rotate_right(r, c, a) ==
  LET new == PixelLoop("rotate_right", r, fb_create(r.height, r.width, c, a), 0, Iterations(r))
  IN  IF new.threw THEN Result(r, new, c) ELSE Result(fb_defer(r), new, c)

\* fb_rotate_left(resource): the last fb_defer is handed the source.
fb_rotate_left(r, c, a) ==
  LET new == PixelLoop("rotate_left", r, fb_create(r.height, r.width, c, a), 0, Iterations(r))
  IN  IF new.threw THEN Result(r, new, c) ELSE Result(fb_defer(r), new, c)

\* fb_color_grayscale(resource)
fb_color_grayscale(r, c, a) ==
  LET new == PixelLoop("grayscale", r, fb_create(r.width, r.height, c, a), 0, Iterations(r))
  IN  Result(r, fb_defer(new), c)

\* fb_color_1bit(resource)
fb_color_1bit(r, c, a) ==
  LET new == PixelLoop("1bit", r, fb_create(r.width, r.height, c, a), 0, Iterations(r))
  IN  Result(r, fb_defer(new), c)

\* The loop of fb_color_replace: pixels of colour p become colour q.
RECURSIVE ReplaceLoop(_, _, _, _, _, _)
ReplaceLoop(r, new, p, q, k, n) ==
  IF k >= n \/ new.threw THEN new
  ELSE LET x == k % r.width
           y == k \div r.width
       IN  ReplaceLoop(r, IF fb_get_pixel(r, x, y) = p THEN fb_set_pixel(new, x, y, q) ELSE new,
                       p, q, k + 1, n)

\* fb_color_replace(resource, pr, pg, pb, cr, cg, cb)
fb_color_replace(r, p, q, c, a) ==
  LET copy == fb_copy(r, 0, 1, 2, c, a)
  IN  Result(r, fb_defer(ReplaceLoop(r, copy, p, q, 0, Iterations(r))), c)

\* fb_color_invert(resource): every colour byte of the copy below the source's
\* length is xor-ed with 255.
fb_color_invert(r, c, a) ==
  LET copy == fb_copy(r, 0, 1, 2, c, a)
  IN  IF copy.threw THEN Result(r, copy, c)
      ELSE Result(r, fb_defer([copy EXCEPT !.image.data =
                    [k \in 1..Len(copy.image.data) |->
                       IF k % 4 = 0 \/ k > Len(r.image.data) THEN copy.image.data[k]
                       ELSE 255 - copy.image.data[k]]]), c)

\* The side of a kernel of 9 or 25 weights.
Side(matrix) == IF Len(matrix) = 9 THEN 3 ELSE 5

\* avg[ch] + offset for pixel (x, y) as the byte stored: the weighted sum of
\* the neighbourhood read with fb_get_pixel, NaN (stored as 0) as soon as one
\* neighbour is undefined, divided by divisor.
Convolve(r, matrix, divisor, offset, x, y, ch) ==
  LET n    == Side(matrix)
      px(j) == fb_get_pixel(r, x + (((j - 1) % n) - (n \div 2)), y + (((j - 1) \div n) - (n \div 2)))
      RECURSIVE Sum(_)
      Sum(j) == IF j = 0 THEN 0 ELSE Sum(j - 1) + px(j)[ch + 1] * matrix[j]
      nan  == \E j \in 1..Len(matrix) : IsUndef(px(j))
      sum  == Sum(Len(matrix))
  IN  IF nan THEN 0
      ELSE IF divisor = 0 THEN (IF sum > 0 THEN 255 ELSE 0)
      ELSE IF divisor > 0
      THEN clamp(RoundHalfEven(sum + offset * divisor, divisor), 0, 255)
      ELSE clamp(RoundHalfEven(-(sum + offset * divisor), -divisor), 0, 255)

\* fb_convolution_matrix(resource, matrix, divisor, offset) for a matrix of 9
\* or 25 weights.
fb_convolution_matrix(r, matrix, divisor, offset, c, a) ==
  LET copy == fb_copy(r, 0, 1, 2, c, a)
      w    == r.width
      h    == r.height
      byte(k) ==
        LET p  == (k - 1) \div 4
            ch == (k - 1) % 4
        IN  IF ch = FB_CHANNEL_A \/ p >= w * h THEN copy.image.data[k]
            ELSE Convolve(r, matrix, divisor, offset, p % w, p \div w, ch)
  IN  IF copy.threw THEN Result(r, copy, c)
      ELSE Result(r, fb_defer([copy EXCEPT !.image.data =
                                 [k \in 1..Len(copy.image.data) |-> byte(k)]]), c)

\* A size check that knows the 3x3 kernel only.
BadMatrixSize_3x3_only(matrix) == Len(matrix) # 9

\* The size check of fb_convolution_matrix.
BadMatrixSize(matrix) == Len(matrix) # 9 /\ Len(matrix) # 25

\* Numbers of fb_resize that are not integers: a positive double is the record
\* [m, e] of its 53 significand bits, the highest first and 1, and the exponent
\* of its lowest bit, so that its value is m (read in binary) * 2^e. A value
\* that is used many times is computed once by binding a name to it in a set:
\* CHOOSE r \in { F(n) : n \in {value} } : TRUE is F(value).
SignificandBits == 53

\* 2^k
RECURSIVE Pow2(_)
Pow2(k) == IF k = 0 THEN 1 ELSE 2 * Pow2(k - 1)

\* 2^k modulo b, for 0 < b < 2^15
RECURSIVE Pow2Mod(_, _)
Pow2Mod(k, b) ==
  IF k = 0 THEN 1 % b
  ELSE (Pow2Mod(k \div 2, b) * Pow2Mod(k \div 2, b) * (IF k % 2 = 1 THEN 2 ELSE 1)) % b

\* The natural number, below 2^31, of the first n of some binary digits, the
\* highest first.
RECURSIVE NatOf(_, _)
NatOf(bits, n) == IF n = 0 THEN 0 ELSE 2 * NatOf(bits, n - 1) + bits[n]

\* Rounding to the nearest double, ties to the even significand: of the
\* binary digits bits, the first of them 1 and the lowest of exponent e, the
\* first 53 are kept, and made one greater if what is cut or left over is
\* more than half of the lowest digit kept (up), or is that half (tie) and the
\* lowest digit kept is 1. One more changes a digit if all the digits below it
\* are 1.
Nearest(bits, e, up, tie) ==
  LET low == e + (Len(bits) - SignificandBits)
  IN  IF ~(up \/ (tie /\ bits[SignificandBits] = 1))
      THEN [m |-> SubSeq(bits, 1, SignificandBits), e |-> low]
      ELSE IF \A i \in 1..SignificandBits : bits[i] = 1
      THEN [m |-> [i \in 1..SignificandBits |-> IF i = 1 THEN 1 ELSE 0], e |-> low + 1]
      ELSE [m |-> [i \in 1..SignificandBits |->
                     IF \A k \in (i + 1)..SignificandBits : bits[k] = 1
                     THEN 1 - bits[i] ELSE bits[i]],
            e |-> low]

\* 2^k <= a / b < 2^(k + 1), for integers 0 < a < 2^15, 0 < b < 2^15
InBinade(a, b, k) ==
  IF k >= 0 THEN b * Pow2(k) <= a /\ a < b * Pow2(k + 1)
  ELSE b <= a * Pow2(0 - k) /\ a * Pow2((0 - k) - 1) < b

\* The binary digit of exponent j of a / b: one of the integer quotient, or
\* digit -j after the binary point, which is 1 if twice the remainder
\* a * 2^(-j - 1) mod b reaches b.
QuotientBit(a, b, j) ==
  IF j >= 0 THEN ((a \div b) \div Pow2(j)) % 2
  ELSE IF 2 * (((a % b) * Pow2Mod((0 - j) - 1, b)) % b) >= b THEN 1 ELSE 0

\* a / b as JavaScript computes it, for integers 0 < a < 2^15, 0 < b < 2^15:
\* the 53 digits of the quotient from its first 1 on, rounded by what is left.
DoubleDiv(a, b) ==
  CHOOSE d \in
    { CHOOSE q \in
        { Nearest(bits, top - (SignificandBits - 1),
                  2 * (((a % b) * Pow2Mod((SignificandBits - 1) - top, b)) % b) > b,
                  2 * (((a % b) * Pow2Mod((SignificandBits - 1) - top, b)) % b) = b)
            : bits \in { [i \in 1..SignificandBits |-> QuotientBit(a, b, top - i + 1)] } } : TRUE
        : top \in { CHOOSE k \in (0 - 15)..14 : InBinade(a, b, k) } } : TRUE

\* The multiplication m * x of 53 binary digits m by 0 < x < 2^15 is made on
\* pieces of 13 digits: the piece that starts n digits above the lowest.
RECURSIVE PieceFrom(_, _, _)
PieceFrom(m, n, len) ==
  IF len = 0 \/ n >= SignificandBits THEN 0
  ELSE m[SignificandBits - n] + 2 * PieceFrom(m, n + 1, len - 1)

\* Piece k of m, k = 1 the lowest, times x, and what piece k - 1 carried over.
RECURSIVE Term(_, _, _)
Term(m, x, k) ==
  PieceFrom(m, 13 * (k - 1), 13) * x + (IF k = 1 THEN 0 ELSE Term(m, x, k - 1) \div Pow2(13))

\* The binary digit of m * x that is n digits above the lowest, from the five
\* terms of the multiplication; the fifth piece is the last.
ProductBit(terms, n) ==
  IF n < 52 THEN (terms[n \div 13 + 1] \div Pow2(n % 13)) % 2
  ELSE (terms[5] \div Pow2(n - 52)) % 2

\* d * x as JavaScript computes it, for a double d > 0 and an integer
\* 0 < x < 2^15: the digits of the product (all) from its first 1 on (bits),
\* rounded by the digits that are cut.
DoubleMul(d, x) ==
  CHOOSE p \in
    { CHOOSE q \in
        { Nearest(bits, d.e,
                  Len(bits) > SignificandBits /\ bits[SignificandBits + 1] = 1
                    /\ \E i \in (SignificandBits + 2)..Len(bits) : bits[i] = 1,
                  Len(bits) > SignificandBits /\ bits[SignificandBits + 1] = 1
                    /\ \A i \in (SignificandBits + 2)..Len(bits) : bits[i] = 0)
            : bits \in { SubSeq(all, CHOOSE i \in 1..17 :
                                         all[i] = 1 /\ \A k \in 1..(i - 1) : all[k] = 0,
                                 Len(all)) } } : TRUE
        : all \in { [i \in 1..(SignificandBits + 16) |->
                       ProductBit(terms, SignificandBits + 16 - i)]
                      : terms \in { [k \in 1..5 |-> Term(d.m, x, k)] } } } : TRUE

\* d | 0 for a double 0 < d < 2^31: its integer part.
DoubleToInt32(d) == IF SignificandBits + d.e <= 0 THEN 0 ELSE NatOf(d.m, SignificandBits + d.e)

\* The widths and heights fb_resize meets here as those of a source or of a
\* resized image.
ResizeDims == (1..(MaxDim + 2)) \cup {98}

\* xd = size / w, computed once for each of them.
QuotientTable == [size \in ResizeDims |-> [w \in ResizeDims |-> DoubleDiv(size, w)]]

\* (xd * x) | 0 where xd = size / w: the source coordinate fb_get_pixel reads
\* for coordinate x of the resized image.
ScaledDouble(size, w, x) ==
  IF x = 0 \/ size <= 0 THEN 0
  ELSE CHOOSE n \in
         { DoubleToInt32(p)
             : p \in { DoubleMul(xd, x)
                         : xd \in { IF size \in ResizeDims /\ w \in ResizeDims
                                    THEN QuotientTable[size][w] ELSE DoubleDiv(size, w) } } } : TRUE

\* The same, computed once for each of the widths and heights met.
ScaledTable ==
  [size \in ResizeDims |->
     [w \in ResizeDims |-> [x \in 0..(w - 1) |-> ScaledDouble(size, w, x)]]]

Scaled(size, w, x) ==
  IF size \in ResizeDims /\ w \in ResizeDims /\ x \in 0..(w - 1)
  THEN ScaledTable[size][w][x]
  ELSE ScaledDouble(size, w, x)

\* The loops of fb_resize: pixel (x, y) of the new resource from the pixel of
\* the source at (xd * x | 0, yd * y | 0), xd = width / w and yd = height / h;
\* iterations k to n - 1 in their order, x outside and y inside (the first
\* half of them, then the second).
RECURSIVE ResizeLoop(_, _, _, _, _, _)
ResizeLoop(r, new, w, h, k, n) ==
  IF k >= n \/ new.threw THEN new
  ELSE IF n - k > 1
  THEN ResizeLoop(r, ResizeLoop(r, new, w, h, k, (k + n) \div 2), w, h, (k + n) \div 2, n)
  ELSE IF ~Created(r) THEN Throw(new)
  ELSE LET x == k \div h
           y == k % h
           c == fb_get_pixel(r, Scaled(r.width, w, x), Scaled(r.height, h, y))
       IN  fb_set_pixel(new, x, y, c)

\* The test of fb_resize for dimensions that have not changed:
\* w == 0 || w == resource.width && h == 0 || h == resource.height
SameDimensions(r, w, h) ==
  w = 0 \/ (w = r.width /\ h = 0) \/ h = r.height

\* fb_resize(resource, w, h) for 32-bit integers w, h and restore = false: same
\* says that the resource itself is returned.
fb_resize_once(r, w, h, c, a) ==
  IF SameDimensions(r, w, h)
  THEN [src |-> r, new |-> r, err |-> "null", same |-> TRUE]
  ELSE LET new == fb_create(w, h, c, a)
           n   == IF w > 0 /\ h > 0 THEN w * h ELSE 0
       IN  [src |-> r, new |-> SyncOne(ResizeLoop(r, new, w, h, 0, n)),
            err |-> new.error, same |-> FALSE]

\* fb_resize(resource, w, h, restore): with restore the resized resource is
\* resized again to the dimensions of the source. errs are the errors created.
fb_resize(r, w, h, restore, c, a) ==
  LET first == fb_resize_once(r, w, h, c, a)
      again == fb_resize_once(first.new, r.width, r.height, c, a)
      Errs(t) == IF t.err = "null" THEN <<>> ELSE <<t.err>>
  IN  IF first.same \/ first.new.threw \/ ~restore
      THEN [src |-> r, new |-> first.new, same |-> first.same, errs |-> Errs(first)]
      ELSE [src |-> r, new |-> again.new, same |-> FALSE, errs |-> Errs(first) \o Errs(again)]

\* The loop of fb_crop, x outside and y inside, iteration k of w * h.
RECURSIVE CropLoop(_, _, _, _, _, _, _)
CropLoop(r, new, x1, y1, h, k, n) ==
  IF k >= n \/ new.threw THEN new
  ELSE LET x == x1 + (k \div h)
           y == y1 + (k % h)
       IN  CropLoop(r, fb_set_pixel(new, x - x1, y - y1, fb_get_pixel(r, x, y)),
                    x1, y1, h, k + 1, n)

\* fb_crop(resource, x1, y1, x2, y2, mode) for integers and mode 0 or 1.
fb_crop(r, px1, py1, px2, py2, mode, c, a) ==
  LET ax1 == Abs(px1)
      ay1 == Abs(py1)
      ax2 == IF mode = 0 /\ Abs(px1) = Abs(px2) THEN Abs(px2) + 1 ELSE Abs(px2)
      ay2 == IF mode = 0 /\ Abs(py1) = Abs(py2) THEN Abs(py2) + 1 ELSE Abs(py2)
      x1  == IF mode = 0 /\ ax1 > ax2 THEN ax2 ELSE ax1
      sx2 == IF mode = 0 /\ ax1 > ax2 THEN ax1 ELSE ax2
      y1  == IF mode = 0 /\ ay1 > ay2 THEN ay2 ELSE ay1
      sy2 == IF mode = 0 /\ ay1 > ay2 THEN ay1 ELSE ay2
      x2  == IF mode = 0 THEN clamp(sx2, 0, r.width) ELSE sx2
      y2  == IF mode = 0 THEN clamp(sy2, 0, r.height) ELSE sy2
      w   == IF mode = 1 THEN x2 ELSE x2 - x1
      h   == IF mode = 1 THEN y2 ELSE y2 - y1
      new == fb_create(w, h, c, a)
      n   == IF w > 0 /\ h > 0 THEN w * h ELSE 0
  IN  IF n > 0 /\ ~Created(r) THEN Result(r, Throw(new), c)
      ELSE Result(r, fb_defer(CropLoop(r, new, x1, y1, h, 0, n)), c)

\* -------------------------------------------------- fb_draw and fb_replace
\* fb_draw(resource_p, resource_c, x, y, w, h, ox, oy): [p, ret, threw].
fb_draw(p, ch, x, y, pw, ph, ox, oy) ==
  LET w0 == clamp(pw, -1, ch.width)
      h0 == clamp(ph, -1, ch.height)
      w  == IF w0 = -1 THEN ch.width ELSE w0
      h  == IF h0 = -1 THEN ch.height ELSE h0
  IN  IF w0 = 0 /\ h0 = 0 THEN [p |-> p, ret |-> FALSE]
      ELSE IF ~Created(p) \/ ~Created(ch) THEN [p |-> Throw(p), ret |-> FALSE]
      ELSE LET canvas == PutImageDataRect(p.canvas, ch.image, x, y, ox, oy, w, h)
           IN  IF w <= 0 \/ h <= 0
               THEN [p |-> Throw([p EXCEPT !.canvas = canvas]), ret |-> FALSE]
               ELSE [p |-> fb_update([p EXCEPT !.canvas = canvas,
                                                !.image = GetImageData(canvas, w, h)]),
                     ret |-> TRUE]

\* fb_replace(resource_p, resource_c): the parent afterwards.
fb_replace(p, ch) ==
  IF ~Created(p) THEN Throw(p)
  ELSE LET sized == [p EXCEPT !.canvas = ResizeCanvas(p.canvas, ch.width, ch.height),
                              !.width = ch.width, !.height = ch.height]
       IN  IF ~Created(ch) THEN Throw(sized)
           ELSE LET canvas == PutImageData(sized.canvas, ch.image, 0, 0)
                IN  [sized EXCEPT !.canvas = canvas,
                                  !.image = GetImageData(canvas, ch.width, ch.height)]

\* ---------------------------------------------------------------- inputs
White == <<255, 255, 255>>

Black == <<0, 0, 0>>

Colors == { Black, <<200, 100, 60>> }

Coords == -1..MaxDim

Points == { <<x, y>> : x \in Coords, y \in Coords }

\* Fewer points: two inside every image, one left of it, one right of it.
FewPoints == { <<0, 0>>, <<MaxDim - 1, 0>>, <<-1, 1>>, <<MaxDim, 0>> }

\* Sizes handed to fb_create: good ones and refused ones.
CreateSizes ==
  { <<w, h>> : w \in 1..MaxDim, h \in 1..MaxDim } \cup
  { <<0, 1>>, <<1, 0>>, <<FB_MAX_WIDTH + 1, 1>>, <<1, FB_MAX_HEIGHT + 1>> }

FewSizes == { <<1, 1>>, <<MaxDim, MaxDim>>, <<MaxDim, 1>>, <<0, 1>> }

ResIds == 1..Len(res)

\* Arguments of fb_sync: one or two of the resources and null (0).
SyncArgSets ==
  { <<a>> : a \in {0} \cup ResIds } \cup
  { <<a, b>> : a \in {0} \cup ResIds, b \in {0} \cup ResIds }

\* Horizontal and vertical segments <<x1, y1, x2, y2>>.
Segments ==
  { <<a, b, a2, b>> : a \in {-1, 0}, b \in 0..(MaxDim - 1), a2 \in {-1, MaxDim} } \cup
  { <<a, b, a, b2>> : a \in 0..(MaxDim - 1), b \in {-1, 0}, b2 \in {-1, MaxDim} } \cup
  { <<0, 0, 0, 0>> }

FewSegments == { <<0, 0, MaxDim, 0>>, <<0, 1, 0, -1>> }

\* Rectangles <<x, y, w, h>>.
Boxes ==
  { <<x, y, w, h>> : x \in {-1, 0}, y \in {0, 1}, w \in {0, MaxDim}, h \in {1, MaxDim} }

FewBoxes == { <<0, 0, 1, 1>>, <<-1, 0, MaxDim, MaxDim>> }

\* What the loop of fb_circle may hand to fb_set_pixel.
CirclePoints == { <<0, 0>>, <<-1, 1>>, <<MaxDim, MaxDim - 1>> }

CircleTraces ==
  { <<p>> : p \in CirclePoints } \cup
  { <<p, q>> : p \in CirclePoints, q \in CirclePoints }

FewTraces == { << <<0, 0>> >>, << <<0, 0>>, <<-1, 1>> >> }

\* Kernels <<matrix, divisor, offset>>: identity, box blur, sharpen, the 5x5
\* identity, and two of a refused length.
Identity3 == <<0, 0, 0, 0, 1, 0, 0, 0, 0>>

Identity5 == [j \in 1..25 |-> IF j = 13 THEN 1 ELSE 0]

Kernels ==
  { <<Identity3, 1, 0>>, <<[j \in 1..9 |-> 1], 9, 0>>,
    <<<<0, -1, 0, -1, 5, -1, 0, -1, 0>>, 1, 0>>, <<Identity5, 1, 0>>,
    <<<<1, 1, 1, 1>>, 1, 0>>, <<<<>>, 1, 0>>, <<[j \in 1..16 |-> 1], 16, 0>> }

FewKernels == { <<Identity3, 1, 0>>, <<<<1, 1, 1, 1>>, 1, 0>> }

\* Arguments <<x1, y1, x2, y2, mode>> of fb_crop.
Crops ==
  { <<x1, y1, x2, y2, 0>> : x1 \in {0, 1}, y1 \in {0, MaxDim}, x2 \in {0, MaxDim + 1}, y2 \in {-1, 1} }
  \cup { <<0, 0, 1, MaxDim, 1>>, <<1, 0, 0, 1, 1>> }

FewCrops == { <<0, 0, 1, 1, 0>>, <<MaxDim, 0, MaxDim + 1, 1, 0>> }

\* Arguments <<x, y, w, h>> of fb_draw.
Draws ==
  { <<x, y, w, h>> : x \in {0, 1}, y \in {0, -1}, w \in {-1, 0, 1}, h \in {-1, 0, 1} }

FewDraws == { <<0, 0, -1, -1>>, <<1, 0, 1, 1>>, <<0, 0, 0, 0>>, <<0, 0, 0, 1>> }

\* Widths and heights for fb_resize: none, small, one more than any image has,
\* one more than the largest, negative, and the width 98, for which the double
\* 2 / 98 * 49 is less than 1.
ResizeSizes == { d \in (0..(MaxDim + 1)) \X (0..(MaxDim + 1)) : TRUE } \cup
               { <<FB_MAX_WIDTH + 1, 1>>, <<-1, 1>>, <<1, -1>>, <<98, 1>> }

ConfigKeys == fb_config_map_keys \cup { "bogus", "ALPHA" }

ConfigValues == { "0", "1", "true", "false", "2", "s:1", "<default>" }

\* ------------------------------------------------------------------ hooks
\* fb_hook_blacklist
fb_hook_blacklist ==
  { "fb_hook", "fb_hook_active", "fb_hook_call", "fb_hook_disable", "fb_hook_enable",
    "fb_hooked", "fb_unhook" }

\* Names of global functions: two of the library, one that every object
\* inherits from Object.prototype, and the blacklisted ones.
FuncNames == { "fb_create", "fb_sync", "toString" } \cup fb_hook_blacklist

\* The names for which (name in {}) is true of an empty object literal.
InheritedNames == { "toString" }

\* Hook functions handed to fb_hook.
HookFuncs == { "hook_a", "hook_b" }

\* The values of a global: the function defined under the name, a hook
\* function, or undefined.
FuncValues == { "original", "undefined" } \cup HookFuncs

NoEntry == [own |-> FALSE, active |-> "undefined", original |-> "undefined", hooked |-> "undefined"]

\* fb_hooked_functions as written: {}. What it yields for an inherited name is
\* the function of Object.prototype, on which the properties active, original
\* and hooked are undefined until assigned.
NoHooks == [f \in FuncNames |-> NoEntry]

\* window[func] before any hook.
Globals == [f \in FuncNames |-> "original"]

\* fb_hooked(func) for a string func: func in fb_hooked_functions
fb_hooked(h, func) == h[func].own \/ func \in InheritedNames

\* fb_hook_active(func)
fb_hook_active(h, func) == IF fb_hooked(h, func) THEN h[func].active ELSE "false"

\* fb_hook_enable(func)
fb_hook_enable(h, w, func) ==
  IF ~fb_hooked(h, func) THEN [hooks |-> h, window |-> w, ok |-> FALSE]
  ELSE [hooks |-> [h EXCEPT ![func].active = "true"],
        window |-> [w EXCEPT ![func] = h[func].hooked], ok |-> TRUE]

\* fb_hook_disable(func)
fb_hook_disable(h, w, func) ==
  IF ~fb_hooked(h, func) THEN [hooks |-> h, window |-> w, ok |-> FALSE]
  ELSE [hooks |-> [h EXCEPT ![func].active = "false"],
        window |-> [w EXCEPT ![func] = h[func].original], ok |-> TRUE]

\* fb_unhook(func): delete removes an own property only.
fb_unhook(h, w, func) ==
  IF ~fb_hooked(h, func) THEN [hooks |-> h, window |-> w, ok |-> FALSE]
  ELSE [hooks |-> IF h[func].own THEN [h EXCEPT ![func] = NoEntry] ELSE h,
        window |-> [w EXCEPT ![func] = h[func].original], ok |-> TRUE]

\* A fb_hook that does not look at the blacklist.
fb_hook_unguarded(h, w, func, hook_func, active) ==
  IF fb_hooked(h, func)
  THEN [hooks |-> h, window |-> w, ok |-> TRUE, err |-> "null"]
  ELSE LET h1 == [h EXCEPT ![func] = [own |-> TRUE, active |-> "false",
                                      original |-> w[func], hooked |-> hook_func]]
           w1 == [w EXCEPT ![func] = h1[func].original]
           e  == fb_hook_enable(h1, w1, func)
       IN  IF active
           THEN [hooks |-> e.hooks, window |-> e.window, ok |-> TRUE, err |-> "null"]
           ELSE [hooks |-> h1, window |-> w1, ok |-> TRUE, err |-> "null"]

\* fb_hook(func, hook_func, active) for a string func and a hook function;
\* the assignment to hook_func.name has no effect on a function.
fb_hook(h, w, func, hook_func, active) ==
  IF func \in fb_hook_blacklist
  THEN [hooks |-> h, window |-> w, ok |-> FALSE, err |-> "FB_ERR_FUNC_BLACKLISTED"]
  ELSE IF fb_hooked(h, func)
  THEN [hooks |-> h, window |-> w, ok |-> TRUE, err |-> "null"]
  ELSE LET h1 == [h EXCEPT ![func] = [own |-> TRUE, active |-> "false",
                                      original |-> w[func], hooked |-> hook_func]]
           w1 == [w EXCEPT ![func] = h1[func].original]
           e  == fb_hook_enable(h1, w1, func)
       IN  IF active
           THEN [hooks |-> e.hooks, window |-> e.window, ok |-> TRUE, err |-> "null"]
           ELSE [hooks |-> h1, window |-> w1, ok |-> TRUE, err |-> "null"]

\* ------------------------------------------------------------------ loads
\* The boundary checks of img.onload: the error id of the first that fails, or
\* "null".
LoadError(width, height) ==
  IF 0 >= width THEN "FB_ERR_BAD_WIDTH"
  ELSE IF 0 >= height THEN "FB_ERR_BAD_HEIGHT"
  ELSE IF width > FB_MAX_WIDTH THEN "FB_ERR_LARGE_WIDTH"
  ELSE IF height > FB_MAX_HEIGHT THEN "FB_ERR_LARGE_HEIGHT"
  ELSE "null"

\* fb_draw_source(resource, img, width, height) on a created resource, for an
\* image of one colour: drawImage scales it to width x height, getImageData
\* reads it back.
fb_draw_source(r, colour, width, height) ==
  LET canvas == [r.canvas EXCEPT !.data =
                   [k \in 1..Len(r.canvas.data) |->
                      IF k % 4 = 0 THEN 255 ELSE colour[k % 4]]]
  IN  [r EXCEPT !.canvas = canvas, !.image = GetImageData(canvas, width, height)]

\* An img.onload that marks the resource loaded whatever the checks say.
img_onload_always_loaded(r, l, iw, ih, colour) ==
  LET width  == IF l.width = -1 THEN iw ELSE l.width
      height == IF l.height = -1 THEN ih ELSE l.height
      err    == LoadError(width, height)
  IN  IF err # "null"
      THEN [res |-> [r EXCEPT !.error = err, !.loaded = TRUE],
            load |-> [l EXCEPT !.state = "done", !.after_error = @ + 1], err |-> err]
      ELSE LET sized == [r EXCEPT !.canvas = ResizeCanvas(r.canvas, width, height),
                                  !.width = width, !.height = height]
           IN  [res |-> [fb_draw_source(sized, colour, width, height) EXCEPT !.loaded = TRUE],
                load |-> [l EXCEPT !.state = "done", !.after_load = @ + 1], err |-> "null"]

\* img.onload of the load l of resource r, for an image of iw x ih pixels of
\* one colour: the resource and the load afterwards, and the error created.
img_onload(r, l, iw, ih, colour) ==
  LET width  == IF l.width = -1 THEN iw ELSE l.width
      height == IF l.height = -1 THEN ih ELSE l.height
      err    == LoadError(width, height)
  IN  IF err # "null"
      THEN [res |-> [r EXCEPT !.error = err],
            load |-> [l EXCEPT !.state = "done", !.after_error = @ + 1], err |-> err]
      ELSE LET sized == [r EXCEPT !.canvas = ResizeCanvas(r.canvas, width, height),
                                  !.width = width, !.height = height]
           IN  [res |-> [fb_draw_source(sized, colour, width, height) EXCEPT !.loaded = TRUE],
                load |-> [l EXCEPT !.state = "done", !.after_load = @ + 1], err |-> "null"]

\* img.onerror of the load l of resource r.
img_onerror(r, l) ==
  [res |-> [r EXCEPT !.error = "FB_ERR_PATH_NOT_FOUND"],
   load |-> [l EXCEPT !.state = "done", !.after_error = @ + 1],
   err |-> "FB_ERR_PATH_NOT_FOUND"]

\* ----------------------------------------------------------------- state
\* fb_config_map as written: every key at its default.
DefaultCfg == [k \in fb_config_map_keys |-> fb_config_map_default(k)]

\* fb_canvas_context_attributes as written.
DefaultCtx == [alpha |-> "false", desynchronized |-> "true"]

Init ==
  /\ res = <<>>
  /\ cfg = DefaultCfg
  /\ ctx = DefaultCtx
  /\ errors = <<>>
  /\ ret = RetUndefined("init")
  /\ steps = 0
  /\ hooks = NoHooks
  /\ window = Globals
  /\ loads = <<>>

\* One more call is made.
Tick == steps < MaxSteps /\ steps' = steps + 1

\* One more call is made, of a function that is none of the hook functions
\* and starts no image load.
Step == Tick /\ UNCHANGED <<hooks, window, loads>>

\* fb_create(w, h) for any integers w and h, each given as the pair n of
\* n[1] * 2^31 + n[2].
FbCreate(w, h) ==
  /\ Step
  /\ Len(res) < MaxRes
  /\ LET r == fb_create(ToInt32(w), ToInt32(h), cfg, ctx)
     IN  /\ res' = Append(res, r)
         /\ errors' = IF r.error # "null" THEN LogError(errors, cfg, r.error) ELSE errors
  /\ ret' = RetRes("fb_create", Len(res) + 1)
  /\ UNCHANGED <<cfg, ctx>>

\* The result of a call on resource i: the resource is stored, and the
\* call returns v unless it threw.
Store(op, i, r, v) ==
  /\ res' = [res EXCEPT ![i] = [r EXCEPT !.threw = FALSE]]
  /\ ret' = IF r.threw THEN RetThrow(op) ELSE v

FbSetPixel(i, x, y, c) ==
  /\ Step
  /\ Store("fb_set_pixel", i, fb_set_pixel(res[i], x, y, c), RetUndefined("fb_set_pixel"))
  /\ UNCHANGED <<cfg, ctx, errors>>

FbGetPixel(i, x, y) ==
  /\ Step
  /\ ret' = IF Created(res[i])
            THEN Ret("fb_get_pixel", "pixel", 0, "", fb_get_pixel(res[i], x, y))
            ELSE RetThrow("fb_get_pixel")
  /\ UNCHANGED <<res, cfg, ctx, errors>>

FbSync(args) ==
  /\ Step
  /\ LET run == SyncArgs(res, args, 1, 0)
     IN  /\ res' = run.res
         /\ ret' = IF run.threw THEN RetThrow("fb_sync") ELSE RetNum("fb_sync", run.count)
  /\ UNCHANGED <<cfg, ctx, errors>>

FbLock(i) ==
  /\ Step
  /\ res' = [res EXCEPT ![i].locked = TRUE]
  /\ ret' = RetBool("fb_lock", TRUE)
  /\ UNCHANGED <<cfg, ctx, errors>>

FbUnlock(i) ==
  /\ Step
  /\ res' = [res EXCEPT ![i].locked = FALSE]
  /\ ret' = RetBool("fb_unlock", TRUE)
  /\ UNCHANGED <<cfg, ctx, errors>>

FbClear(i, c) ==
  /\ Step
  /\ Store("fb_clear", i, fb_clear(res[i], c), RetBool("fb_clear", TRUE))
  /\ UNCHANGED <<cfg, ctx, errors>>

FbLine(i, x1, y1, x2, y2, c) ==
  /\ Step
  /\ x1 = x2 \/ y1 = y2
  /\ Store("fb_line", i, fb_line(res[i], x1, y1, x2, y2, c), RetBool("fb_line", TRUE))
  /\ UNCHANGED <<cfg, ctx, errors>>

FbRect(i, x, y, w, h, c, fill) ==
  /\ Step
  /\ Store("fb_rect", i, fb_rect(res[i], x, y, w, h, c, fill), RetBool("fb_rect", TRUE))
  /\ UNCHANGED <<cfg, ctx, errors>>

FbCircle(i, pts, c) ==
  /\ Step
  /\ Store("fb_circle", i, fb_circle(res[i], pts, c), RetBool("fb_circle", TRUE))
  /\ UNCHANGED <<cfg, ctx, errors>>

\* A call of fb_fill whose loop never ends does not return: it has no step.
FbFill(i, x, y, c) ==
  /\ Step
  /\ LET run == fb_fill(res[i], x, y, c)
     IN  /\ run.done
         /\ Store("fb_fill", i, run.r, RetBool("fb_fill", run.ret))
  /\ UNCHANGED <<cfg, ctx, errors>>

\* A transform of resource i returned: its new resource joins the others
\* unless the call threw.
StoreNew(op, i, t) ==
  /\ Len(res) < MaxRes
  /\ res' = IF t.new.threw \/ t.src.threw
            THEN [res EXCEPT ![i] = [t.src EXCEPT !.threw = FALSE]]
            ELSE Append([res EXCEPT ![i] = t.src], t.new)
  /\ ret' = IF t.new.threw \/ t.src.threw THEN RetThrow(op) ELSE RetRes(op, Len(res) + 1)
  /\ errors' = IF t.err # "null" THEN LogError(errors, cfg, t.err) ELSE errors
  /\ UNCHANGED <<cfg, ctx>>

FbCopy(i) ==
  /\ Step
  /\ StoreNew("fb_copy", i, Result(res[i], fb_copy(res[i], 0, 1, 2, cfg, ctx), cfg))

FbFlipX(i) == Step /\ StoreNew("fb_flip_x", i, fb_flip_x(res[i], cfg, ctx))

FbFlipY(i) == Step /\ StoreNew("fb_flip_y", i, fb_flip_y(res[i], cfg, ctx))

FbRotateRight(i) == Step /\ StoreNew("fb_rotate_right", i, fb_rotate_right(res[i], cfg, ctx))

FbRotateLeft(i) == Step /\ StoreNew("fb_rotate_left", i, fb_rotate_left(res[i], cfg, ctx))

FbColorGrayscale(i) ==
  Step /\ StoreNew("fb_color_grayscale", i, fb_color_grayscale(res[i], cfg, ctx))

FbColor1bit(i) == Step /\ StoreNew("fb_color_1bit", i, fb_color_1bit(res[i], cfg, ctx))

FbColorInvert(i) == Step /\ StoreNew("fb_color_invert", i, fb_color_invert(res[i], cfg, ctx))

FbColorReplace(i, p, q) ==
  Step /\ StoreNew("fb_color_replace", i, fb_color_replace(res[i], p, q, cfg, ctx))

FbCrop(i, x1, y1, x2, y2, mode) ==
  Step /\ StoreNew("fb_crop", i, fb_crop(res[i], x1, y1, x2, y2, mode, cfg, ctx))

\* fb_resize: the resource itself is returned, or a new one joins the others
\* unless the call threw.
FbResize(i, w, h, restore) ==
  /\ Step
  /\ LET t == fb_resize(res[i], w, h, restore, cfg, ctx)
     IN  /\ t.same \/ Len(res) < MaxRes
         /\ res' = IF t.same \/ t.new.threw THEN res ELSE Append(res, t.new)
         /\ ret' = IF t.same THEN RetRes("fb_resize", i)
                   ELSE IF t.new.threw THEN RetThrow("fb_resize")
                   ELSE RetRes("fb_resize", Len(res) + 1)
         /\ errors' = IF Truthy(cfg["error_log"]) THEN errors \o t.errs ELSE errors
  /\ UNCHANGED <<cfg, ctx>>

\* fb_convolution_matrix: a matrix of another length than 9 or 25 is refused
\* before anything is created.
FbConvolutionMatrix(i, matrix, divisor, offset) ==
  /\ Step
  /\ IF BadMatrixSize(matrix)
     THEN /\ ret' = RetErr("fb_convolution_matrix", "FB_ERR_CONVOLUTION_MATRIX_SIZE")
          /\ errors' = LogError(errors, cfg, "FB_ERR_CONVOLUTION_MATRIX_SIZE")
          /\ UNCHANGED <<res, cfg, ctx>>
     ELSE StoreNew("fb_convolution_matrix", i,
                   fb_convolution_matrix(res[i], matrix, divisor, offset, cfg, ctx))

FbDraw(i, j, x, y, w, h) ==
  /\ Step
  /\ LET run == fb_draw(res[i], res[j], x, y, w, h, 0, 0)
     IN  Store("fb_draw", i, run.p, RetBool("fb_draw", run.ret))
  /\ UNCHANGED <<cfg, ctx, errors>>

\* fb_replace(resource_p, resource_c) for arguments that are resources or
\* null (0).
FbReplace(i, j) ==
  /\ Step
  /\ IF ~fb_valid(i) \/ ~fb_valid(j)
     THEN res' = res /\ ret' = RetBool("fb_replace", FALSE)
     ELSE Store("fb_replace", i, fb_replace(res[i], res[j]), RetBool("fb_replace", TRUE))
  /\ UNCHANGED <<cfg, ctx, errors>>

\* fb_config(key): the getter.
FbConfigGet(key) ==
  /\ Step
  /\ IF key \notin fb_config_map_keys
     THEN /\ ret' = RetErr("fb_config", "FB_ERR_BAD_CFG_KEY")
          /\ errors' = LogError(errors, cfg, "FB_ERR_BAD_CFG_KEY")
     ELSE /\ ret' = Ret("fb_config", "val", 0, fb_config_get(cfg, key), NoPx)
          /\ errors' = errors
  /\ UNCHANGED <<res, cfg, ctx>>

\* fb_config(key, value): the setter.
FbConfigSet(key, value) ==
  /\ Step
  /\ LET r == fb_config(cfg, ctx, key, value)
     IN  /\ cfg' = r.cfg
         /\ ctx' = r.ctx
         /\ ret' = IF r.err = "null" THEN RetBool("fb_config", TRUE) ELSE RetErr("fb_config", r.err)
         /\ errors' = IF r.err = "null" THEN errors ELSE LogError(errors, cfg, r.err)
  /\ UNCHANGED <<res>>

\* fb_config_default(key)
FbConfigDefault(key) ==
  /\ Step
  /\ IF ToLowerCase(key) \in fb_config_map_keys
     THEN /\ ret' = Ret("fb_config_default", "val", 0, fb_config_default(key), NoPx)
          /\ errors' = errors
     ELSE /\ ret' = RetErr("fb_config_default", "FB_ERR_BAD_CFG_KEY")
          /\ errors' = LogError(errors, cfg, "FB_ERR_BAD_CFG_KEY")
  /\ UNCHANGED <<res, cfg, ctx>>

\* fb_sync_config(): a stub that returns the error FB_ERR_STUB_FUNCTION.
FbSyncConfig ==
  /\ Step
  /\ ret' = RetErr("fb_sync_config", "FB_ERR_STUB_FUNCTION")
  /\ errors' = LogError(errors, cfg, "FB_ERR_STUB_FUNCTION")
  /\ UNCHANGED <<res, cfg, ctx>>

\* fb_error(data) for data null (kind "null"), a string ("str"), a value that
\* is neither ("num"), an error definition ("def") or an FBError ("err"); id is
\* the definition's id.
FbError(kind, id) ==
  /\ Step
  /\ ret' = CASE kind = "null" -> RetBool("fb_error", FALSE)
             [] kind = "err" -> RetBool("fb_error", TRUE)
             [] kind = "def" -> RetErr("fb_error", id)
             [] OTHER -> RetErr("fb_error", "FB_ERR_USER_GENERATED")
  /\ errors' = CASE kind \in {"null", "err"} -> errors
                [] kind = "def" -> LogError(errors, cfg, id)
                [] OTHER -> LogError(errors, cfg, "FB_ERR_USER_GENERATED")
  /\ UNCHANGED <<res, cfg, ctx>>

\* fb_error(resource): fb_error(resource.error), null or an FBError.
FbErrorOfResource(i) ==
  /\ Step
  /\ i \in 1..Len(res)
  /\ ret' = RetBool("fb_error", res[i].error # "null")
  /\ UNCHANGED <<res, cfg, ctx, errors>>

\* fb_get_last_error()
FbGetLastError ==
  /\ Step
  /\ ret' = IF Len(errors) = 0 THEN RetNull("fb_get_last_error")
            ELSE IF ~Truthy(fb_config_get(cfg, "error_log")) THEN RetNull("fb_get_last_error")
            ELSE RetErr("fb_get_last_error", errors[Len(errors)])
  /\ UNCHANGED <<res, cfg, ctx, errors>>

\* fb_clear_errors()
FbClearErrors ==
  /\ Step
  /\ errors' = <<>>
  /\ ret' = RetUndefined("fb_clear_errors")
  /\ UNCHANGED <<res, cfg, ctx>>

FbHook(func, hook_func, active) ==
  /\ Tick
  /\ UNCHANGED loads
  /\ LET r == fb_hook(hooks, window, func, hook_func, active)
     IN  /\ hooks' = r.hooks
         /\ window' = r.window
         /\ ret' = IF r.err = "null" THEN RetBool("fb_hook", r.ok) ELSE RetErr("fb_hook", r.err)
         /\ errors' = IF r.err = "null" THEN errors ELSE LogError(errors, cfg, r.err)
  /\ UNCHANGED <<res, cfg, ctx>>

FbHookEnable(func) ==
  /\ Tick
  /\ UNCHANGED loads
  /\ LET r == fb_hook_enable(hooks, window, func)
     IN  hooks' = r.hooks /\ window' = r.window /\ ret' = RetBool("fb_hook_enable", r.ok)
  /\ UNCHANGED <<res, cfg, ctx, errors>>

FbHookDisable(func) ==
  /\ Tick
  /\ UNCHANGED loads
  /\ LET r == fb_hook_disable(hooks, window, func)
     IN  hooks' = r.hooks /\ window' = r.window /\ ret' = RetBool("fb_hook_disable", r.ok)
  /\ UNCHANGED <<res, cfg, ctx, errors>>

FbUnhook(func) ==
  /\ Tick
  /\ UNCHANGED loads
  /\ LET r == fb_unhook(hooks, window, func)
     IN  hooks' = r.hooks /\ window' = r.window /\ ret' = RetBool("fb_unhook", r.ok)
  /\ UNCHANGED <<res, cfg, ctx, errors>>

FbHookActive(func) ==
  /\ Tick
  /\ UNCHANGED loads
  /\ ret' = Ret("fb_hook_active", "val", 0, fb_hook_active(hooks, func), NoPx)
  /\ UNCHANGED <<res, cfg, ctx, errors, hooks, window>>

FbHooked(func) ==
  /\ Tick
  /\ UNCHANGED loads
  /\ ret' = RetBool("fb_hooked", fb_hooked(hooks, func))
  /\ UNCHANGED <<res, cfg, ctx, errors, hooks, window>>

\* fb_load(path, width, height): width and height are numbers, or -1 for a
\* callback or nothing. The image load is started and the dummy resource
\* returned.
FbLoad(path, width, height) ==
  /\ Tick
  /\ IF path = "null"
     THEN /\ ret' = RetNull("fb_load")
          /\ UNCHANGED <<res, loads>>
     ELSE /\ Len(res) < MaxRes
          /\ res' = Append(res, [fb_create(1, 1, cfg, ctx) EXCEPT !.loaded = FALSE])
          /\ loads' = Append(loads, [res |-> Len(res) + 1, width |-> width, height |-> height,
                                     state |-> "pending", after_load |-> 0, after_error |-> 0])
          /\ ret' = RetRes("fb_load", Len(res) + 1)
  /\ UNCHANGED <<cfg, ctx, errors, hooks, window>>

\* The image of load k has loaded, iw x ih pixels of one colour: img.onload.
ImgOnload(k, iw, ih, colour) ==
  /\ Tick
  /\ k \in 1..Len(loads)
  /\ loads[k].state = "pending"
  /\ LET i == loads[k].res
         t == img_onload(res[i], loads[k], iw, ih, colour)
     IN  /\ t.err = "null" => t.res.width * t.res.height <= MaxPixels
         /\ res' = [res EXCEPT ![i] = t.res]
         /\ loads' = [loads EXCEPT ![k] = t.load]
         /\ errors' = IF t.err = "null" THEN errors ELSE LogError(errors, cfg, t.err)
  /\ ret' = RetUndefined("img.onload")
  /\ UNCHANGED <<cfg, ctx, hooks, window>>

\* The image of load k could not be loaded: img.onerror.
ImgOnerror(k) ==
  /\ Tick
  /\ k \in 1..Len(loads)
  /\ loads[k].state = "pending"
  /\ LET i == loads[k].res
         t == img_onerror(res[i], loads[k])
     IN  /\ res' = [res EXCEPT ![i] = t.res]
         /\ loads' = [loads EXCEPT ![k] = t.load]
         /\ errors' = LogError(errors, cfg, t.err)
  /\ ret' = RetUndefined("img.onerror")
  /\ UNCHANGED <<cfg, ctx, hooks, window>>

\* Every operation, on few inputs.
Next ==
  \/ \E d \in FewSizes : FbCreate(<<0, d[1]>>, <<0, d[2]>>)
  \/ \E i \in ResIds, p \in FewPoints, c \in Colors : FbSetPixel(i, p[1], p[2], c)
  \/ \E i \in ResIds, p \in FewPoints : FbGetPixel(i, p[1], p[2])
  \/ \E args \in SyncArgSets : FbSync(args)
  \/ \E i \in ResIds : FbLock(i)
  \/ \E i \in ResIds : FbUnlock(i)
  \/ \E i \in ResIds : FbClear(i, Black)
  \/ \E i \in ResIds, s \in FewSegments : FbLine(i, s[1], s[2], s[3], s[4], Black)
  \/ \E i \in ResIds, b \in FewBoxes, fill \in BOOLEAN :
        FbRect(i, b[1], b[2], b[3], b[4], Black, fill)
  \/ \E i \in ResIds, pts \in FewTraces : FbCircle(i, pts, Black)
  \/ \E i \in ResIds, p \in FewPoints : FbFill(i, p[1], p[2], Black)
  \/ \E i \in ResIds : FbCopy(i)
  \/ \E i \in ResIds : FbFlipX(i)
  \/ \E i \in ResIds : FbFlipY(i)
  \/ \E i \in ResIds : FbRotateRight(i)
  \/ \E i \in ResIds : FbRotateLeft(i)
  \/ \E i \in ResIds : FbColorGrayscale(i)
  \/ \E i \in ResIds : FbColor1bit(i)
  \/ \E i \in ResIds : FbColorInvert(i)
  \/ \E i \in ResIds : FbColorReplace(i, White, Black)
  \/ \E i \in ResIds, a \in FewCrops : FbCrop(i, a[1], a[2], a[3], a[4], a[5])
  \/ \E i \in ResIds, d \in FewSizes : FbResize(i, d[1], d[2], FALSE)
  \/ \E i \in ResIds, m \in FewKernels : FbConvolutionMatrix(i, m[1], m[2], m[3])
  \/ \E i \in ResIds, j \in ResIds, a \in FewDraws : FbDraw(i, j, a[1], a[2], a[3], a[4])
  \/ \E i \in {0} \cup ResIds, j \in {0} \cup ResIds : FbReplace(i, j)
  \/ \E v \in {"0", "1"} : FbConfigSet("defer", v)
  \/ FbSyncConfig
  \/ \E k \in {"null", "str"} : FbError(k, "")
  \/ \E i \in ResIds : FbErrorOfResource(i)
  \/ FbGetLastError
  \/ FbClearErrors
  \/ \E a \in BOOLEAN : FbHook("fb_create", "hook_a", a)
  \/ FbHookEnable("fb_create")
  \/ FbHookDisable("fb_create")
  \/ FbUnhook("fb_create")
  \/ FbHookActive("fb_create")
  \/ FbHooked("fb_create")
  \/ \E path \in {"null", "path"} : FbLoad(path, -1, -1)
  \/ \E k \in 1..Len(loads), d \in {<<1, 1>>, <<0, 1>>} : ImgOnload(k, d[1], d[2], Black)
  \/ \E k \in 1..Len(loads) : ImgOnerror(k)

Spec == Init /\ [][Next]_vars

\* -------------------------------------------------- one call on one image
\* The bitmaps of a w x h image whose pixels are white or black.
Bitmaps(w, h) ==
  { [k \in 1..(w * h * 4) |-> IF k % 4 = 0 THEN 255 ELSE IF ((k - 1) \div 4) \in S THEN 0 ELSE 255]
      : S \in SUBSET (0..(w * h - 1)) }

\* A resource after fb_create(w, h), some calls of fb_set_pixel that left it
\* with bitmap data, then fb_sync (synced) or not, then fb_draw of its own
\* first pixel onto itself (drawn) or not, then fb_lock (locked) or not.
Drawn(w, h, data, defer, synced, drawn, locked) ==
  LET r == fb_create(w, h, [DefaultCfg EXCEPT !["defer"] = defer], DefaultCtx)
      d == [r EXCEPT !.image.data = data, !.dirty = 1]
      s == IF synced THEN SyncOne(d) ELSE d
  IN  [(IF drawn THEN fb_draw(s, s, 0, 0, 1, 1, 0, 0).p ELSE s) EXCEPT !.locked = locked]

InitImage ==
  /\ \E w \in 1..MaxDim :
       \E h \in { n \in 1..MaxDim : w * n <= MaxPixels } :
       \E data \in Bitmaps(w, h), defer \in {"0", "1"} :
       \E synced \in BOOLEAN, drawn \in BOOLEAN, locked \in BOOLEAN :
          /\ res = << Drawn(w, h, data, defer, synced, drawn, locked) >>
          /\ cfg = [DefaultCfg EXCEPT !["defer"] = defer]
  /\ ctx = DefaultCtx
  /\ errors = <<>>
  /\ ret = RetUndefined("init")
  /\ steps = MaxSteps - 1
  /\ hooks = NoHooks
  /\ window = Globals
  /\ loads = <<>>

\* Every operation on the one image, on more inputs.
NextImage ==
  \/ \E p \in Points, c \in Colors : FbSetPixel(1, p[1], p[2], c)
  \/ \E p \in Points : FbGetPixel(1, p[1], p[2])
  \/ \E args \in SyncArgSets : FbSync(args)
  \/ FbLock(1)
  \/ FbUnlock(1)
  \/ \E c \in Colors : FbClear(1, c)
  \/ \E s \in Segments : FbLine(1, s[1], s[2], s[3], s[4], Black)
  \/ \E b \in Boxes, fill \in BOOLEAN : FbRect(1, b[1], b[2], b[3], b[4], Black, fill)
  \/ \E pts \in CircleTraces : FbCircle(1, pts, Black)
  \/ \E p \in Points, c \in Colors : FbFill(1, p[1], p[2], c)
  \/ FbCopy(1)
  \/ FbFlipX(1)
  \/ FbFlipY(1)
  \/ FbRotateRight(1)
  \/ FbRotateLeft(1)
  \/ FbColorGrayscale(1)
  \/ FbColor1bit(1)
  \/ FbColorInvert(1)
  \/ \E p \in {White, Black}, q \in Colors : FbColorReplace(1, p, q)
  \/ \E a \in Crops : FbCrop(1, a[1], a[2], a[3], a[4], a[5])
  \/ \E d \in ResizeSizes, restore \in BOOLEAN : FbResize(1, d[1], d[2], restore)
  \/ \E m \in Kernels : FbConvolutionMatrix(1, m[1], m[2], m[3])
  \/ \E a \in Draws : FbDraw(1, 1, a[1], a[2], a[3], a[4])
  \/ \E i \in {0, 1}, j \in {0, 1} : FbReplace(i, j)

SpecImage == InitImage /\ [][NextImage]_vars

\* ------------------------------------------------- the configuration alone
NextCfg ==
  \/ \E k \in ConfigKeys : FbConfigGet(k)
  \/ \E k \in ConfigKeys, v \in ConfigValues : FbConfigSet(k, v)
  \/ \E k \in ConfigKeys : FbConfigDefault(k)

SpecCfg == Init /\ [][NextCfg]_vars

\* ------------------------------------------------------ the error log alone
\* The ids of the errors met in the log.
ErrorIds == { "FB_ERR_BAD_WIDTH", "FB_ERR_BAD_CFG_KEY", "FB_ERR_USER_GENERATED" }

\* The logs of at most MaxLog errors.
Logs == UNION { [1..n -> ErrorIds] : n \in 0..MaxLog }

\* The log after errors were logged, and 'error_log' after it was set since.
InitErr ==
  /\ res = <<>>
  /\ \E v \in fb_config_allowed("error_log") : cfg = [DefaultCfg EXCEPT !["error_log"] = v]
  /\ ctx = DefaultCtx
  /\ errors \in Logs
  /\ ret = RetUndefined("init")
  /\ steps = 0
  /\ hooks = NoHooks
  /\ window = Globals
  /\ loads = <<>>

NextErr ==
  \/ \E k \in {"null", "str", "num", "def", "err"} : FbError(k, "FB_ERR_BAD_CFG_KEY")
  \/ \E i \in ResIds : FbErrorOfResource(i)
  \/ FbGetLastError
  \/ FbClearErrors
  \/ \E d \in FewSizes : FbCreate(<<0, d[1]>>, <<0, d[2]>>)
  \/ \E k \in {"error_log", "bogus"} : FbConfigGet(k)
  \/ \E v \in {"0", "1", "2"} : FbConfigSet("error_log", v)

SpecErr == InitErr /\ [][NextErr]_vars

\* ---------------------------------------------------- the hook registry alone
NextHook ==
  \/ \E f \in FuncNames, g \in HookFuncs, a \in BOOLEAN : FbHook(f, g, a)
  \/ \E f \in FuncNames : FbHookEnable(f)
  \/ \E f \in FuncNames : FbHookDisable(f)
  \/ \E f \in FuncNames : FbUnhook(f)
  \/ \E f \in FuncNames : FbHookActive(f)
  \/ \E f \in FuncNames : FbHooked(f)

SpecHook == Init /\ [][NextHook]_vars

\* ------------------------------------------------------------ fb_create alone
\* Widths and heights around the boundaries of fb_create and of n | 0.
\* The last two are 2^31 and 2^32 + 1.
WideDims == { <<0, 0>>, <<0, MaxDim>>, <<0, FB_MAX_WIDTH + 1>>, <<1, 0>>, <<2, 1>> }

\* The pairs of them whose image, if one is made, has MaxPixels pixels at most.
WideSizes ==
  { d \in WideDims \X WideDims :
      \/ CreateError(ToInt32(d[1]), ToInt32(d[2])) # "null"
      \/ ToInt32(d[1]) * ToInt32(d[2]) <= MaxPixels }

NextCreate ==
  \/ \E d \in WideSizes : FbCreate(d[1], d[2])
  \/ \E v \in {"0", "1"} : FbConfigSet("alpha", v)

SpecCreate == Init /\ [][NextCreate]_vars

\* ------------------------------------------------------------- fb_load alone
\* Widths and heights of the images that load.
ImageDims == { 0, 1, MaxDim, FB_MAX_WIDTH + 1 }

NextLoad ==
  \/ \E path \in {"null", "path"}, w \in {-1, 1}, h \in {-1, 0} : FbLoad(path, w, h)
  \/ \E k \in 1..Len(loads), iw \in ImageDims, ih \in ImageDims, c \in Colors :
        ImgOnload(k, iw, ih, c)
  \/ \E k \in 1..Len(loads) : ImgOnerror(k)
  \/ \E i \in ResIds : FbSetPixel(i, 0, 0, Black)
  \/ \E i \in ResIds : FbLock(i)
  \/ \E i \in ResIds, j \in ResIds : FbReplace(i, j)
  \/ \E i \in ResIds : FbSync(<<i>>)
  \/ \E d \in {<<1, 1>>, <<MaxDim, 1>>} : FbCreate(<<0, d[1]>>, <<0, d[2]>>)

SpecLoad == Init /\ [][NextLoad]_vars

\* ================================================================ claims
\* The pixels of r's image.
Pixels(r) == { <<x, y>> : x \in 0..(r.width - 1), y \in 0..(r.height - 1) }

\* The pixels next to p: left, right, up, down.
Neighbours(p) == { <<p[1] - 1, p[2]>>, <<p[1] + 1, p[2]>>, <<p[1], p[2] - 1>>, <<p[1], p[2] + 1>> }

\* The 4-connected region of r's image that holds the pixels of S and has the
\* colour bg.
RECURSIVE Grow(_, _, _)
Grow(r, bg, S) ==
  LET T == S \cup { q \in Pixels(r) :
                      fb_get_pixel(r, q[1], q[2]) = bg /\ Neighbours(q) \cap S # {} }
  IN  IF T = S THEN S ELSE Grow(r, bg, T)

Region(r, x, y) == Grow(r, fb_get_pixel(r, x, y), { <<x, y>> })

\* The bytes of the buffer outside the three colour bytes of pixel (x, y).
OtherBytes(r, x, y) ==
  { k \in 1..Len(r.image.data) :
      k - 1 \notin { r.width * y * 4 + x * 4 + ch : ch \in {FB_CHANNEL_R, FB_CHANNEL_G, FB_CHANNEL_B} } }

Flushed(r) == r.dirty = 0 /\ DisplayEq(r)

\* A valid resource: an argument that is a resource, successfully created.
Valid(arg) == arg \in ResIds /\ Created(res[arg])

Transforms ==
  { "fb_copy", "fb_flip_x", "fb_flip_y", "fb_rotate_right", "fb_rotate_left", "fb_crop",
    "fb_color_replace", "fb_color_invert", "fb_color_grayscale", "fb_color_1bit",
    "fb_convolution_matrix" }

\* C1: in every reachable state, a successfully created resource whose dirty
\* flag is 0 shows its pixel buffer on its display surface.
C1_DirtyBitInvariant ==
  \A i \in ResIds : (Created(res[i]) /\ res[i].dirty = 0) => DisplayEq(res[i])

\* C2: on a valid unlocked write-through resource, when fb_set_pixel, fb_line,
\* fb_rect, fb_circle, fb_clear or fb_fill has returned, the display equals the
\* buffer and dirty is 0.
C2_WriteThroughFlush ==
  [][(/\ Created(res[1]) /\ ~res[1].locked /\ res[1].defer = "0"
      /\ ret'.op \in {"fb_set_pixel", "fb_line", "fb_rect", "fb_circle", "fb_clear", "fb_fill"}
      /\ ret'.kind # "throw")
     => Flushed(res'[1])]_vars

\* C3: under the write-through configuration, every new resource a transform
\* returns has dirty 0 and a display equal to its buffer.
C3_TransformResultsFlushed ==
  (/\ ret.op \in Transforms /\ ret.kind = "res"
   /\ cfg["defer"] = "0"
   /\ Created(res[ret.n]))
  => Flushed(res[ret.n])

\* C4: fb_sync returns the number of its valid arguments, skips the others,
\* leaves every valid argument with display equal to buffer and dirty 0, and
\* changes no pixel buffer.
C4_SyncCountsAndFlushes ==
  [][\A args \in SyncArgSets :
       FbSync(args) =>
         /\ ret' = RetNum("fb_sync", Cardinality({ k \in 1..Len(args) : Valid(args[k]) }))
         /\ \A k \in 1..Len(args) : Valid(args[k]) => Flushed(res'[args[k]])
         /\ \A i \in ResIds : res'[i].image = res[i].image]_vars

\* C5: while a resource is locked, fb_set_pixel, fb_line, fb_rect, fb_circle,
\* fb_fill, fb_clear, fb_draw and fb_replace on it change neither its pixel
\* buffer nor its dimensions.
C5_LockBlocksModifications ==
  [][(/\ res[1].locked
      /\ ret'.op \in {"fb_set_pixel", "fb_line", "fb_rect", "fb_circle", "fb_fill",
                      "fb_clear", "fb_draw", "fb_replace"})
     => /\ res'[1].image = res[1].image
        /\ res'[1].width = res[1].width
        /\ res'[1].height = res[1].height]_vars

\* C6: on a valid unlocked resource, fb_set_pixel at an in-bounds (x, y) makes
\* fb_get_pixel(x, y) return the colour written, leaves every byte other than
\* the three at width*y*4 + x*4 as it was, and sets dirty to 1.
C6_PixelRoundTrip ==
  [][\A i \in ResIds, p \in Points, c \in Colors :
       (/\ ret'.op = "fb_set_pixel"
        /\ Valid(i) /\ ~res[i].locked
        /\ <<p[1], p[2]>> \in Pixels(res[i])
        /\ FbSetPixel(i, p[1], p[2], c))
       => /\ fb_get_pixel(res'[i], p[1], p[2]) = c
          /\ Len(res'[i].image.data) = Len(res[i].image.data)
          /\ \A k \in OtherBytes(res[i], p[1], p[2]) :
               res'[i].image.data[k] = res[i].image.data[k]
          /\ res'[i].dirty = 1]_vars

\* C7: on a valid unlocked resource, fb_fill from an in-bounds seed with a
\* colour other than the seed's returns true, gives the fill colour to exactly
\* the pixels of the seed's 4-connected region of the seed's colour, and leaves
\* every other pixel as it was.
C7_FillRegion ==
  [][\A p \in Points, c \in Colors :
       (/\ ret'.op = "fb_fill"
        /\ Created(res[1]) /\ ~res[1].locked
        /\ <<p[1], p[2]>> \in Pixels(res[1])
        /\ fb_get_pixel(res[1], p[1], p[2]) # c
        /\ FbFill(1, p[1], p[2], c))
       => /\ ret' = RetBool("fb_fill", TRUE)
          /\ \A q \in Pixels(res[1]) :
               fb_get_pixel(res'[1], q[1], q[2]) =
                 IF q \in Region(res[1], p[1], p[2]) THEN c
                 ELSE fb_get_pixel(res[1], q[1], q[2])]_vars

\* C8: on a valid resource, fb_convolution_matrix with a matrix of a length
\* other than 9 and 25 returns the error FB_ERR_CONVOLUTION_MATRIX_SIZE, creates
\* no resource and leaves the source as it was; with a matrix of length 9 or 25
\* it returns a new resource of the source's dimensions.
C8_ConvolutionSizeCheck ==
  [][\A m \in Kernels :
       (/\ ret'.op = "fb_convolution_matrix"
        /\ Created(res[1])
        /\ FbConvolutionMatrix(1, m[1], m[2], m[3]))
       => IF Len(m[1]) \notin {9, 25}
          THEN /\ ret' = RetErr("fb_convolution_matrix", "FB_ERR_CONVOLUTION_MATRIX_SIZE")
               /\ res' = res
          ELSE /\ ret' = RetRes("fb_convolution_matrix", Len(res) + 1)
               /\ Len(res') = Len(res) + 1
               /\ Created(res'[Len(res')])
               /\ res'[Len(res')].width = res[1].width
               /\ res'[Len(res')].height = res[1].height
               /\ res'[Len(res')].image.w = res[1].width
               /\ res'[Len(res')].image.h = res[1].height]_vars

\* A kernel of a refused length has just been turned down.
C8_Witness ==
  /\ ret = RetErr("fb_convolution_matrix", "FB_ERR_CONVOLUTION_MATRIX_SIZE")
  /\ Len(res) = 1
  /\ Created(res[1])

\* C9: fb_config(key, v) with a known key and a v that is neither '<default>'
\* nor allowed for the key returns the error FB_ERR_BAD_CFG_VALUE and changes
\* no configuration value and no context attribute; every key's value is
\* always one of its allowed values.
C9_ConfigValidation ==
  [][/\ \A k \in fb_config_map_keys, v \in ConfigValues :
          (v # "<default>" /\ v \notin fb_config_allowed(k) /\ FbConfigSet(k, v))
          => /\ ret' = RetErr("fb_config", "FB_ERR_BAD_CFG_VALUE")
             /\ cfg' = cfg
             /\ ctx' = ctx
     /\ \A k \in fb_config_map_keys :
          cfg[k] \in fb_config_allowed(k) /\ cfg'[k] \in fb_config_allowed(k)]_vars

\* A value was refused after another had been accepted.
C9_Witness ==
  /\ ret = RetErr("fb_config", "FB_ERR_BAD_CFG_VALUE")
  /\ cfg["alpha"] = "true"

C11_ContextFollowsConfig ==
  /\ Truthy(ctx.alpha) = Truthy(cfg["alpha"])
  /\ Truthy(ctx.desynchronized) = Truthy(cfg["desync"])

\* C12: a call that creates an error appends it to the log if 'error_log' is
\* enabled at that moment and leaves the log alone if it is not; no call but
\* fb_clear_errors makes the log grow otherwise or shrink; fb_get_last_error
\* returns the last error of the log when logging is enabled and the log is not
\* empty, and null otherwise; fb_clear_errors empties the log.
C12_ErrorLog ==
  [][/\ (ret'.kind = "err" /\ ret'.op # "fb_get_last_error")
          => errors' = IF Truthy(cfg["error_log"]) THEN Append(errors, ret'.s) ELSE errors
     /\ (ret'.op = "fb_create" /\ res'[Len(res')].error # "null")
          => errors' = IF Truthy(cfg["error_log"]) THEN Append(errors, res'[Len(res')].error)
                       ELSE errors
     /\ (~Truthy(cfg["error_log"]) /\ ret'.op # "fb_clear_errors") => errors' = errors
     /\ (ret'.op # "fb_clear_errors") => Len(errors') >= Len(errors)
     /\ (ret'.op = "fb_get_last_error")
          => ret' = IF Truthy(cfg["error_log"]) /\ errors # <<>>
                    THEN RetErr("fb_get_last_error", errors[Len(errors)])
                    ELSE RetNull("fb_get_last_error")
     /\ (ret'.op = "fb_clear_errors") => errors' = <<>>]_vars

\* With logging enabled, fb_get_last_error has just returned an error that a
\* call of fb_error appended to a log that held another.
C12_Witness ==
  /\ ret = RetErr("fb_get_last_error", "FB_ERR_USER_GENERATED")
  /\ Len(errors) >= 2
  /\ errors[Len(errors) - 1] # "FB_ERR_USER_GENERATED"
  /\ Truthy(cfg["error_log"])

\* C13: for every name in the registry the global function is the hook
\* function if the entry is active and the original function otherwise, and
\* fb_hook_active reports which; after fb_unhook of a name the entry is gone
\* and the global function is the original one.
C13_HookRegistryConsistent ==
  [][/\ \A f \in FuncNames :
          fb_hooked(hooks', f) =>
            IF Truthy(hooks'[f].active)
            THEN window'[f] = hooks'[f].hooked /\ window'[f] \in HookFuncs
            ELSE window'[f] = "original"
     /\ \A f \in FuncNames :
          FbHookActive(f) => (Truthy(ret'.s) <=> (fb_hooked(hooks, f) /\ window[f] \in HookFuncs))
     /\ \A f \in FuncNames :
          (ret'.op = "fb_unhook" /\ FbUnhook(f))
            => (~fb_hooked(hooks', f) /\ window'[f] = "original")]_vars

\* C14: fb_hook with a blacklisted name returns the error
\* FB_ERR_FUNC_BLACKLISTED and changes neither the registry nor the global
\* function; no blacklisted name is ever a key of the registry.
C14_HookBlacklist ==
  [][/\ \A f \in fb_hook_blacklist, g \in HookFuncs, a \in BOOLEAN :
          FbHook(f, g, a) => /\ ret' = RetErr("fb_hook", "FB_ERR_FUNC_BLACKLISTED")
                             /\ hooks' = hooks
                             /\ window' = window
     /\ \A f \in fb_hook_blacklist :
          ~fb_hooked(hooks, f) /\ ~fb_hooked(hooks', f) /\ window'[f] = "original"]_vars

\* fb_hook has just refused a blacklisted name while another function is
\* hooked.
C14_Witness ==
  /\ ret = RetErr("fb_hook", "FB_ERR_FUNC_BLACKLISTED")
  /\ fb_hooked(hooks, "fb_create")
  /\ window["fb_create"] = "hook_a"

\* What C15 says of the resource r that fb_create returned for the integers
\* width and height, each given as the pair n of n[1] * 2^31 + n[2].
CreateContract(r, width, height) ==
  LET NotPositive(n) == n[1] < 0 \/ (n[1] = 0 /\ n[2] <= 0)
      Large(n) == n[1] > 0 \/ (n[1] = 0 /\ n[2] > 32767)
  IN  /\ r.error = (IF NotPositive(width) THEN "FB_ERR_BAD_WIDTH"
                    ELSE IF NotPositive(height) THEN "FB_ERR_BAD_HEIGHT"
                    ELSE IF Large(width) THEN "FB_ERR_LARGE_WIDTH"
                    ELSE IF Large(height) THEN "FB_ERR_LARGE_HEIGHT"
                    ELSE "null")
      /\ IF r.error # "null"
         THEN r.canvas.null /\ r.image.null
         ELSE /\ Created(r)
              /\ Len(r.image.data) = width[2] * height[2] * 4
              /\ \A k \in 1..Len(r.image.data) : r.image.data[k] = 255
              /\ r.dirty = 0
              /\ r.locked = FALSE
              /\ DisplayEq(r)

C16_ResizeDimensions ==
  [][\A d \in ResizeSizes :
       (/\ ret'.op = "fb_resize"
        /\ Created(res[1])
        /\ d[1] > 0 /\ d[1] <= 32767 /\ d[2] > 0 /\ d[2] <= 32767
        /\ FbResize(1, d[1], d[2], FALSE))
       => IF d[1] = res[1].width /\ d[2] = res[1].height
          THEN ret' = RetRes("fb_resize", 1) /\ res' = res
          ELSE /\ ret' = RetRes("fb_resize", Len(res) + 1)
               /\ Len(res') = Len(res) + 1
               /\ res'[Len(res')].width = d[1]
               /\ res'[Len(res')].height = d[2]]_vars

\* C17: on a valid resource, fb_crop in point mode (mode 0) returns, for any
\* integers x1, y1, x2, y2, a successfully created resource without error
\* whose width and height are at least 1.
C17_CropNeverEmpty ==
  [][\A a \in Crops :
       (/\ ret'.op = "fb_crop"
        /\ Created(res[1])
        /\ a[5] = 0
        /\ FbCrop(1, a[1], a[2], a[3], a[4], a[5]))
       => /\ ret' = RetRes("fb_crop", Len(res) + 1)
          /\ Len(res') = Len(res) + 1
          /\ Created(res'[Len(res')])
          /\ res'[Len(res')].error = "null"
          /\ res'[Len(res')].width >= 1
          /\ res'[Len(res')].height >= 1]_vars

\* C19: fb_replace(parent, child) with two valid resources returns true and
\* leaves the parent with the child's width and height, a pixel buffer equal
\* to the child's and a display that shows it, and the child as it was; with
\* an invalid parent or child it returns false and changes nothing.
C19_ReplaceCopiesChild ==
  [][\A i \in {0} \cup ResIds, j \in {0} \cup ResIds :
       FbReplace(i, j) =>
         IF Valid(i) /\ Valid(j)
         THEN /\ ret' = RetBool("fb_replace", TRUE)
              /\ res'[i].width = res[j].width
              /\ res'[i].height = res[j].height
              /\ res'[i].image = res[j].image
              /\ DisplayEq(res'[i])
              /\ \A k \in ResIds \ {i} : res'[k] = res[k]
         ELSE /\ ret' = RetBool("fb_replace", FALSE)
              /\ res' = res]_vars

\* C18: the resource of fb_load(path, after_load, after_error) has loaded =
\* false while its image load is pending, and no callback has been invoked;
\* the completion of the load invokes one callback, once: after_load if the
\* image loaded with 0 < width <= 32767 and 0 < height <= 32767, and then
\* loaded = true, error = null and the resource has the image's width, height
\* and buffer size; after_error otherwise, and then loaded is false and error
\* is FB_ERR_PATH_NOT_FOUND for a load error, a dimension error that the image
\* fails otherwise.
C18_LoadProtocol ==
  [][/\ \A k \in 1..Len(loads') :
          /\ loads'[k].state = "pending" => ~res'[loads'[k].res].loaded
          /\ loads'[k].after_load + loads'[k].after_error
               = (IF loads'[k].state = "pending" THEN 0 ELSE 1)
     /\ \A k \in 1..Len(loads), iw \in ImageDims, ih \in ImageDims, c \in Colors :
          (/\ ret'.op = "img.onload"
           /\ loads[k].width = -1 /\ loads[k].height = -1
           /\ ImgOnload(k, iw, ih, c))
          => LET r == res'[loads[k].res]
             IN  IF 0 < iw /\ iw <= 32767 /\ 0 < ih /\ ih <= 32767
                 THEN /\ loads'[k].after_load = 1 /\ loads'[k].after_error = 0
                      /\ r.loaded /\ r.error = "null"
                      /\ r.width = iw /\ r.height = ih
                      /\ r.image.w = iw /\ r.image.h = ih
                      /\ Len(r.image.data) = iw * ih * 4
                 ELSE /\ loads'[k].after_error = 1 /\ loads'[k].after_load = 0
                      /\ ~r.loaded
                      /\ r.error \in
                           (IF iw <= 0 THEN {"FB_ERR_BAD_WIDTH"} ELSE {}) \cup
                           (IF ih <= 0 THEN {"FB_ERR_BAD_HEIGHT"} ELSE {}) \cup
                           (IF iw > 32767 THEN {"FB_ERR_LARGE_WIDTH"} ELSE {}) \cup
                           (IF ih > 32767 THEN {"FB_ERR_LARGE_HEIGHT"} ELSE {})
     /\ \A k \in 1..Len(loads) :
          (ret'.op = "img.onerror" /\ ImgOnerror(k))
          => /\ loads'[k].after_error = 1 /\ loads'[k].after_load = 0
             /\ ~res'[loads[k].res].loaded
             /\ res'[loads[k].res].error = "FB_ERR_PATH_NOT_FOUND"]_vars

\* A load started with callbacks has ended with after_load and a resource of
\* the image's size, after a pixel of the dummy resource was set while the
\* load was pending.
C18_Witness ==
  /\ ret = RetUndefined("img.onload")
  /\ Len(loads) = 1
  /\ loads[1].after_load = 1 /\ loads[1].width = -1 /\ loads[1].height = -1
  /\ res[loads[1].res].loaded
  /\ res[loads[1].res].width = MaxDim
  /\ res[loads[1].res].dirty = 1

\* The RGB pixels of b are those of a, and so are the dimensions.
SamePixels(a, b) ==
  /\ a.width = b.width
  /\ a.height = b.height
  /\ \A p \in Pixels(a) : fb_get_pixel(b, p[1], p[2]) = fb_get_pixel(a, p[1], p[2])

\* C20: for a valid W x H resource, fb_rotate_right returns a new H x W resource
\* whose pixel (H-1-y, x) is the source's pixel (x, y), fb_rotate_left one
\* whose pixel (y, W-1-x) is the source's pixel (x, y); one after the other, in
\* either order, gives the dimensions and RGB pixels of the source; the source
\* is left as it was.
C20_RotateQuarterTurns ==
  [][(/\ ret'.op \in {"fb_rotate_right", "fb_rotate_left"}
      /\ Created(res[1])
      /\ FbRotateRight(1) \/ FbRotateLeft(1))
     => LET r   == res[1]
            new == res'[Len(res')]
        IN  /\ ret' = RetRes(ret'.op, Len(res) + 1)
            /\ Len(res') = Len(res) + 1
            /\ Created(new)
            /\ new.width = r.height
            /\ new.height = r.width
            /\ \A p \in Pixels(r) :
                 fb_get_pixel(r, p[1], p[2]) =
                   IF ret'.op = "fb_rotate_right"
                   THEN fb_get_pixel(new, r.height - 1 - p[2], p[1])
                   ELSE fb_get_pixel(new, p[2], r.width - 1 - p[1])
            /\ SamePixels(r, fb_rotate_left(fb_rotate_right(r, cfg, ctx).new, cfg, ctx).new)
            /\ SamePixels(r, fb_rotate_right(fb_rotate_left(r, cfg, ctx).new, cfg, ctx).new)
            /\ res'[1] = r]_vars


\* C21: for a valid W x H resource, fb_flip_x returns a new W x H resource
\* whose pixel (W-1-x, y) is the source's pixel (x, y), fb_flip_y one whose
\* pixel (x, H-1-y) is the source's pixel (x, y); the same flip twice gives the
\* RGB pixels of the source, the two flips commute, and the pixel buffer of the
\* source is left as it was.
C21_FlipInvolutions ==
  [][(/\ ret'.op \in {"fb_flip_x", "fb_flip_y"}
      /\ Created(res[1])
      /\ FbFlipX(1) \/ FbFlipY(1))
     => LET r   == res[1]
            new == res'[Len(res')]
            fx(s) == fb_flip_x(s, cfg, ctx).new
            fy(s) == fb_flip_y(s, cfg, ctx).new
        IN  /\ ret' = RetRes(ret'.op, Len(res) + 1)
            /\ Len(res') = Len(res) + 1
            /\ Created(new)
            /\ new.width = r.width
            /\ new.height = r.height
            /\ \A p \in Pixels(r) :
                 fb_get_pixel(r, p[1], p[2]) =
                   IF ret'.op = "fb_flip_x"
                   THEN fb_get_pixel(new, r.width - 1 - p[1], p[2])
                   ELSE fb_get_pixel(new, p[1], r.height - 1 - p[2])
            /\ SamePixels(r, fx(fx(r)))
            /\ SamePixels(r, fy(fy(r)))
            /\ SamePixels(fx(fy(r)), fy(fx(r)))
            /\ res'[1].image = r.image]_vars

\* C22: whenever fb_resize(resource, w, h) creates a new w x h resource (w > 0,
\* h > 0, the resource itself not returned), pixel (x, y) of the result is the
\* source's pixel (floor(x * W / w), floor(y * H / h)), W x H the dimensions of
\* the source, the result is flushed to its display with dirty = 0, and with
\* restore = true the resource returned has the dimensions W x H again.
C22_NearestNeighbour ==
  [][\A d \in ResizeSizes, restore \in BOOLEAN :
       (/\ ret'.op = "fb_resize"
        /\ Created(res[1])
        /\ d[1] > 0 /\ d[2] > 0
        /\ FbResize(1, d[1], d[2], restore)
        /\ ret' = RetRes("fb_resize", Len(res) + 1))
       => LET r   == res[1]
              new == res'[Len(res')]
          IN  IF restore
              THEN new.width = r.width /\ new.height = r.height
              ELSE /\ new.width = d[1]
                   /\ new.height = d[2]
                   /\ \A p \in Pixels(new) :
                        fb_get_pixel(new, p[1], p[2]) =
                          fb_get_pixel(r, (p[1] * r.width) \div d[1],
                                          (p[2] * r.height) \div d[2])
                   /\ new.dirty = 0
                   /\ DisplayEq(new)]_vars

\* C23: fb_fill from a seed whose pixel has the fill colour already returns
\* false and leaves the resource as it was: pixel buffer, dirty flag and
\* display, under write-through too.
C23_FillSameColour ==
  [][\A p \in Points, c \in Colors :
       (/\ ret'.op = "fb_fill"
        /\ Created(res[1])
        /\ fb_get_pixel(res[1], p[1], p[2]) = c
        /\ FbFill(1, p[1], p[2], c))
       => /\ ret' = RetBool("fb_fill", FALSE)
          /\ res' = res]_vars

\* fb_fill has returned false on an unlocked write-through resource whose
\* buffered changes are still to be flushed.
C23_Witness ==
  /\ ret = RetBool("fb_fill", FALSE)
  /\ Created(res[1])
  /\ ~res[1].locked
  /\ res[1].defer = "0"
  /\ res[1].dirty = 1
  /\ ~DisplayEq(res[1])

\* C24: fb_fill returns: on every valid resource, locked or not, from every
\* seed, inside the image or outside, and with every fill colour, the loop of
\* fb_fill with fb_set_pixel as its callback empties its stack.
C24_FillTerminates ==
  \A i \in 1..Len(res), p \in Points, c \in Colors :
    Created(res[i]) => fb_fill(res[i], p[1], p[2], c).done

\* C25: every successfully created resource has, after any operations, a pixel
\* buffer of exactly width * height pixels (an image of the resource's width
\* and height with width * height * 4 bytes) and a canvas of the same width
\* and height.
C25_BufferMatchesDimensions ==
  \A i \in 1..Len(res) :
    Created(res[i]) =>
      /\ res[i].image.w = res[i].width
      /\ res[i].image.h = res[i].height
      /\ Len(res[i].image.data) = res[i].width * res[i].height * 4
      /\ res[i].canvas.w = res[i].width
      /\ res[i].canvas.h = res[i].height

\* C26: fb_draw on a write-back parent with buffered changes not yet flushed
\* (dirty = 1) changes only the parent's pixels inside the rectangle drawn:
\* every pixel of the parent outside it keeps its buffered value in the pixel
\* buffer, and the display shows that value after the call.
C26_DrawKeepsPendingWrites ==
  [][\A a \in Draws :
       (/\ ret'.op = "fb_draw"
        /\ Created(res[1])
        /\ res[1].defer = "1"
        /\ res[1].dirty = 1
        /\ FbDraw(1, 1, a[1], a[2], a[3], a[4])
        /\ ret' = RetBool("fb_draw", TRUE))
       => LET r == res[1]
              w == IF a[3] = -1 THEN r.width ELSE a[3]
              h == IF a[4] = -1 THEN r.height ELSE a[4]
          IN  \A q \in Pixels(r) :
                ~(a[1] <= q[1] /\ q[1] < a[1] + w /\ a[2] <= q[2] /\ q[2] < a[2] + h)
                => /\ fb_get_pixel(res'[1], q[1], q[2]) = fb_get_pixel(r, q[1], q[2])
                   /\ SubSeq(PixelAt(res'[1].canvas.data, res'[1].canvas.w, q[1], q[2]), 1, 3)
                        = fb_get_pixel(r, q[1], q[2])]_vars

\* C27: for a valid W x H resource, fb_convolution_matrix with the 3x3 or the
\* 5x5 matrix that is 1 at its centre and 0 elsewhere, divisor 1 and offset 0,
\* returns a new resource whose RGB value at every pixel, those on the border
\* of the image included, is the source's, and leaves the source's pixel buffer
\* as it was.
C27_IdentityKernel ==
  [][\A m \in {Identity3, Identity5} :
       (/\ ret'.op = "fb_convolution_matrix"
        /\ Created(res[1])
        /\ FbConvolutionMatrix(1, m, 1, 0))
       => LET r   == res[1]
              new == res'[Len(res')]
          IN  /\ ret' = RetRes("fb_convolution_matrix", Len(res) + 1)
              /\ Len(res') = Len(res) + 1
              /\ \A p \in Pixels(r) :
                   fb_get_pixel(new, p[1], p[2]) = fb_get_pixel(r, p[1], p[2])
              /\ res'[1].image = r.image]_vars

\* C28: fb_valid is false for the resource of a failed fb_create (error set,
\* canvas, context and image null), so fb_sync, fb_set_pixel, fb_get_pixel,
\* fb_clear, fb_copy, fb_crop and fb_resize given such a resource return their
\* failure value (count 0, undefined, false, null) and leave it alone, and no
\* fb_crop or fb_resize that makes such a resource itself reads its null
\* canvas, context or image.
C28_FailedResourcesRejected ==
  [][/\ \A i \in ResIds :
          ~Created(res[i]) =>
            /\ ~fb_valid(i)
            /\ FbSync(<<i>>) => (ret' = RetNum("fb_sync", 0) /\ res' = res)
            /\ \A p \in FewPoints, c \in Colors :
                 FbSetPixel(i, p[1], p[2], c)
                   => (ret' = RetUndefined("fb_set_pixel") /\ res' = res)
            /\ \A p \in FewPoints :
                 FbGetPixel(i, p[1], p[2]) => ret' = RetUndefined("fb_get_pixel")
            /\ FbClear(i, Black) => (ret' = RetBool("fb_clear", FALSE) /\ res' = res)
            /\ FbCopy(i) => (ret' = RetNull("fb_copy") /\ res' = res)
            /\ \A a \in FewCrops :
                 FbCrop(i, a[1], a[2], a[3], a[4], a[5])
                   => (ret' = RetNull("fb_crop") /\ res' = res)
            /\ \A d \in FewSizes :
                 FbResize(i, d[1], d[2], FALSE) => (ret' = RetNull("fb_resize") /\ res' = res)
     /\ ret'.op \in {"fb_crop", "fb_resize"} => ret'.kind # "throw"]_vars

\* C29: on a valid unlocked resource fb_rect(resource, x, y, w, h, r, g, b,
\* true), for any integers x, y, w, h, negative ones too, gives the colour
\* (r, g, b) to the pixels (px, py) of the image with x <= px < x + w and
\* y <= py < y + h, and leaves every other pixel as it was.
C29_FilledRectClipped ==
  [][\A b \in Boxes :
       (/\ ret'.op = "fb_rect"
        /\ Created(res[1]) /\ ~res[1].locked
        /\ FbRect(1, b[1], b[2], b[3], b[4], Black, TRUE))
       => /\ ret' = RetBool("fb_rect", TRUE)
          /\ \A q \in Pixels(res[1]) :
               fb_get_pixel(res'[1], q[1], q[2]) =
                 IF /\ b[1] <= q[1] /\ q[1] < b[1] + b[3]
                    /\ b[2] <= q[2] /\ q[2] < b[2] + b[4]
                 THEN Black
                 ELSE fb_get_pixel(res[1], q[1], q[2])]_vars

\* C30: the defer field of a resource is the value the 'defer' configuration
\* had when fb_create made it and is never changed afterwards; neither
\* fb_config nor fb_sync_config, which only returns the error
\* FB_ERR_STUB_FUNCTION, changes any field, the buffer, the dirty flag or the
\* display of a resource that exists, and fb_create leaves the resources that
\* exist as they were.
C30_WritePolicyFixedAtCreation ==
  [][/\ Len(res') >= Len(res)
     /\ \A i \in 1..Len(res) : res'[i].defer = res[i].defer
     /\ ret'.op \in {"fb_config", "fb_sync_config"} => res' = res
     /\ ret'.op = "fb_sync_config"
          => (ret' = RetErr("fb_sync_config", "FB_ERR_STUB_FUNCTION") /\ cfg' = cfg)
     /\ ret'.op = "fb_create"
          => /\ Len(res') = Len(res) + 1
             /\ res'[Len(res')].defer = cfg["defer"]
             /\ SubSeq(res', 1, Len(res)) = res]_vars

\* A resource made before fb_config('defer', v) and one made after it, each
\* with the policy of its time.
C30_Witness ==
  /\ Len(res) = 2
  /\ Created(res[1]) /\ Created(res[2])
  /\ res[1].defer # res[2].defer
  /\ res[2].defer = cfg["defer"]
  /\ ret.op = "fb_create"
====
